---- MODULE Spec2Model ----
(***************************************************************************)
(* Health Compass: the retrieval-augmented answering pipeline              *)
(* (HealthCompassRAG.query), its safety classifier (SafetyChecker), the    *)
(* vector index search (FreeVectorDB.search), the generation client        *)
(* (OpenRouterClient.generate) and the two UI handlers of app.py that      *)
(* call query(): the search tab and the AI-assistant chat.                 *)
(* The ingestion side is modelled as well: TextProcessor (clean_text,      *)
(* chunk_text and the corpus build of process_all) and the index calls     *)
(* add_documents, get_stats, delete_all and search of FreeVectorDB, each   *)
(* under a specification of its own over the same variables.  Three more   *)
(* specifications cover the start of the app (load_rag with and without an *)
(* API key), several query() calls running at once on one orchestrator,    *)
(* and add_documents taken batch by batch with searches in between.        *)
(*                                                                         *)
(* Python strings are TLA+ strings; Len, SubSeq, Head, Tail and \o act on  *)
(* them character by character.  Python's None is the value None below.    *)
(***************************************************************************)
EXTENDS Integers, Sequences, FiniteSets, TLC

VARIABLES
    collection,     \* FreeVectorDB.collection: the persisted chunks, in insertion order
    pc,             \* position of the one caller inside the UI handler / query()
    caller,         \* who called query(): "direct", "search_tab" or "chat"
    user_question,  \* query()'s argument user_question
    n_results,      \* query()'s argument n_results
    safety_result,  \* query()'s local safety_result
    context_docs,   \* query()'s local context_docs
    api_outcome,    \* what the API call made for query() did
    answer,         \* query()'s local answer
    result,         \* the dict query() returned, NotReturned before it returns
    raised,         \* TRUE when query() ended by raising instead of returning
    trace,          \* the component calls made since the question was submitted, in order
    shown,          \* what the UI handler rendered for this question, in order
    text_arg,       \* TextProcessor: the text handed to clean_text / chunk_text
    chunk_size,     \* chunk_text's argument chunk_size
    overlap,        \* chunk_text's argument overlap
    chunks,         \* what chunk_text returned for text, NotCalled before the call
    cleaned,        \* what clean_text returned for text, NotCalled before the call
    raw_dir,        \* data/raw: the raw files of data/raw/medlineplus and data/raw/cdc
    stage,          \* position of the run inside TextProcessor.process_all
    all_docs,       \* process_all's local all_docs
    log,            \* the lines the ingestion call under way or last made printed, in order
    documents,      \* the argument of the latest add_documents call
    count_before,   \* collection.count() when the latest add_documents call began
    ids_assigned,   \* the ids list of every add_documents call since the index was cleared
    stats,          \* what get_stats returned after the latest add_documents call
    add_error,      \* the exception that left the latest add_documents call, None if it returned
    query_text,     \* the query of the latest FreeVectorDB.search call made on its own
    search_hits,    \* what that search call returned, NotCalled before the call
    api_key,        \* os.getenv("OPENROUTER_API_KEY") in the app's process
    rag,            \* what load_rag() returned and st.cache_resource keeps, NotCalled before
    status,         \* what the sidebar's System Status shows, NotCalled before it is drawn
    calls,          \* the locals of each query() call that runs beside others, by thread
    adding          \* the add_documents call that runs in steps beside searches

\* the locals of query() and of the two UI handlers
queryVars == <<pc, caller, user_question, n_results, safety_result,
               context_docs, api_outcome, answer, result, raised, trace, shown>>

\* the state of one TextProcessor.clean_text / chunk_text call
textVars == <<text_arg, chunk_size, overlap, chunks, cleaned>>

\* the state of one corpus build (TextProcessor.process_all)
corpusVars == <<raw_dir, stage, all_docs>>

\* the state around the add_documents / get_stats / search calls on the index
indexVars == <<documents, count_before, ids_assigned, stats, add_error, query_text,
               search_hits>>

\* the app's startup: the environment, the cached orchestrator, the status line
startupVars == <<api_key, rag, status>>

\* the calls that run beside each other
concurrentVars == <<calls, adding>>

\* what the handlers of one question and the ingestion calls leave alone
processVars == <<startupVars, concurrentVars>>

\* everything the question-answering handlers leave alone
ingestVars == <<textVars, corpusVars, log, indexVars, processVars>>

vars == <<collection, queryVars, ingestVars>>

None == "<None>"
NotReturned == [pending |-> TRUE]
NoOutcome == [pending |-> TRUE]
\* a call that has not been made yet, and the value a call returned
NotCalled == [called |-> FALSE]
Called(v) == [called |-> TRUE, value |-> v]

\* no clean_text / chunk_text call is under way
TextIdle ==
    /\ text_arg = ""
    /\ chunk_size = 0
    /\ overlap = 0
    /\ chunks = NotCalled
    /\ cleaned = NotCalled

\* no corpus build is under way
CorpusIdle ==
    /\ raw_dir = [medlineplus |-> [exists |-> FALSE, files |-> <<>>],
                  cdc |-> [exists |-> FALSE, files |-> <<>>]]
    /\ stage = "idle"
    /\ all_docs = <<>>

\* the key the environment holds when .env is set up
ApiKey == "sk-or-v1-0000"

\* HealthCompassRAG(): the instance its __init__ leaves when nothing raises
Orchestrator ==
    [vector_db |-> "FreeVectorDB", llm |-> "mistralai/mistral-7b-instruct:free",
     safety |-> "SafetyChecker"]

\* Python's None where an orchestrator is expected
NoOrchestrator == [vector_db |-> None, llm |-> None, safety |-> None]

\* the app has started with the key set: load_rag() holds the orchestrator
AppLoaded ==
    /\ api_key = ApiKey
    /\ rag = Called(Orchestrator)
    /\ status = Called("Online")

\* no Streamlit app runs in this process
AppNotStarted ==
    /\ api_key = ApiKey
    /\ rag = NotCalled
    /\ status = NotCalled

\* no query() calls run beside each other and no add_documents runs in steps
Sequential ==
    /\ calls = <<>>
    /\ adding = NotCalled

\* no add_documents / get_stats / search call has been made by this process
IndexIdle ==
    /\ documents = <<>>
    /\ count_before = 0
    /\ stats = NotCalled
    /\ add_error = None
    /\ query_text = ""
    /\ search_hits = NotCalled

----------------------------------------------------------------------------
(* Strings *)

UpperLetters == "ABCDEFGHIJKLMNOPQRSTUVWXYZ"
LowerLetters == "abcdefghijklmnopqrstuvwxyz"

\* each capital letter with its lowercase form
LowerOf ==
    [c \in { SubSeq(UpperLetters, i, i) : i \in 1..Len(UpperLetters) } |->
        LET i == CHOOSE j \in 1..Len(UpperLetters) : SubSeq(UpperLetters, j, j) = c
        IN  SubSeq(LowerLetters, i, i)]

\* the lowercase form of one character, as str.lower() maps ASCII letters
LowerChar(c) == IF c \in DOMAIN LowerOf THEN LowerOf[c] ELSE c

RECURSIVE lower(_)
\* str.lower()
lower(s) ==
    IF s = "" THEN ""
    ELSE IF Len(s) = 1 THEN LowerChar(s)
    ELSE LET m == Len(s) \div 2
         IN  lower(SubSeq(s, 1, m)) \o lower(SubSeq(s, m + 1, Len(s)))

\* Python's `k in q` on strings: k occurs in q as a contiguous substring
In(k, q) == \E i \in 1..(Len(q) - Len(k) + 1) : SubSeq(q, i, i + Len(k) - 1) = k

----------------------------------------------------------------------------
(* SafetyChecker *)

emergency_keywords == <<
    "chest pain", "heart attack", "severe chest pressure",
    "crushing chest pain", "chest discomfort radiating",
    "can't breathe", "difficulty breathing", "choking",
    "severe shortness of breath", "gasping for air",
    "blue lips", "blue face",
    "stroke", "stroke symptoms", "loss of consciousness",
    "passed out", "fainted", "unresponsive",
    "severe head injury", "head trauma", "seizure",
    "sudden confusion", "can't speak", "slurred speech",
    "face drooping", "arm weakness", "sudden numbness",
    "severe bleeding", "bleeding won't stop", "heavy bleeding",
    "major injury", "severe trauma", "broken neck",
    "spinal injury",
    "severe allergic reaction", "anaphylaxis", "anaphylactic shock",
    "throat swelling", "throat closing", "can't swallow",
    "suicidal", "want to die", "kill myself", "end my life",
    "suicide plan", "going to kill",
    "severe pain", "unbearable pain", "excruciating pain",
    "poisoning", "overdose", "took too many pills",
    "severe burn", "third degree burn",
    "compound fracture", "bone through skin" >>

urgent_keywords == <<
    "high fever", "fever over 103", "fever won't go down",
    "persistent vomiting", "can't keep anything down",
    "severe dehydration", "dizzy and weak",
    "signs of infection", "wound infection", "red streaks",
    "pregnancy complications", "bleeding during pregnancy",
    "severe pain that won't go away",
    "broken bone", "think i broke", "deep cut",
    "eye injury", "something in eye",
    "severe headache", "worst headache of life",
    "stiff neck with fever" >>

\* first line of the text _get_emergency_message returns
EmergencyMessage == "MEDICAL EMERGENCY - CALL 911 IMMEDIATELY"
\* first line of the text _get_urgent_message returns, with its 24-hour step
UrgentMessage == "URGENT MEDICAL ATTENTION RECOMMENDED - contact your doctor within 24 hours"

_get_emergency_message == EmergencyMessage
_get_urgent_message == UrgentMessage

\* the `for keyword in keywords: if keyword in query_lower: return ...` loop:
\* the index of the first keyword of the list that occurs in q, 0 when none does
RECURSIVE FirstMatch(_, _, _)
FirstMatch(keywords, q, i) ==
    IF i > Len(keywords) THEN 0
    ELSE IF In(keywords[i], q) THEN i
    ELSE FirstMatch(keywords, q, i + 1)

\* check_query matching against the query as typed
check_query_NoLower(query) ==
    LET e == FirstMatch(emergency_keywords, query, 1)
        u == FirstMatch(urgent_keywords, query, 1)
    IN  IF e # 0
        THEN [level |-> "EMERGENCY", message |-> _get_emergency_message,
              keyword_triggered |-> emergency_keywords[e]]
        ELSE IF u # 0
        THEN [level |-> "URGENT", message |-> _get_urgent_message,
              keyword_triggered |-> urgent_keywords[u]]
        ELSE [level |-> "INFO", message |-> None, keyword_triggered |-> None]

\* check_query with its two loops in the other order
check_query_UrgentFirst(query) ==
    LET query_lower == lower(query)
        e == FirstMatch(emergency_keywords, query_lower, 1)
        u == FirstMatch(urgent_keywords, query_lower, 1)
    IN  IF u # 0
        THEN [level |-> "URGENT", message |-> _get_urgent_message,
              keyword_triggered |-> urgent_keywords[u]]
        ELSE IF e # 0
        THEN [level |-> "EMERGENCY", message |-> _get_emergency_message,
              keyword_triggered |-> emergency_keywords[e]]
        ELSE [level |-> "INFO", message |-> None, keyword_triggered |-> None]

check_query(query) ==
    LET query_lower == lower(query)
        e == FirstMatch(emergency_keywords, query_lower, 1)
        u == FirstMatch(urgent_keywords, query_lower, 1)
    IN  IF e # 0
        THEN [level |-> "EMERGENCY", message |-> _get_emergency_message,
              keyword_triggered |-> emergency_keywords[e]]
        ELSE IF u # 0
        THEN [level |-> "URGENT", message |-> _get_urgent_message,
              keyword_triggered |-> urgent_keywords[u]]
        ELSE [level |-> "INFO", message |-> None, keyword_triggered |-> None]

----------------------------------------------------------------------------
(* FreeVectorDB *)

\* the most chunks a persisted collection holds in this model
MaxChunks == 3
\* the coordinates of an embedding range over 0..EmbRange-1
EmbRange == 5
\* the largest n_results a direct caller of query() passes
MaxK == 3

\* raw documents as add_documents receives them from the corpus builder
DocPool == <<
    [text |-> "Diabetes is a condition of high blood sugar.",
     source |-> "CDC", url |-> "https://www.cdc.gov/diabetes",
     title |-> "Diabetes Basics", section |-> "General",
     metadata |-> [credibility |-> "high",
                   organization |-> "Centers for Disease Control and Prevention"]],
    [text |-> "Symptoms of diabetes include thirst and tiredness.",
     source |-> "CDC", url |-> "https://www.cdc.gov/diabetes",
     title |-> "Diabetes Symptoms", section |-> "Symptoms",
     metadata |-> [credibility |-> "medium",
                   organization |-> "CDC Division of Diabetes Translation"]],
    [text |-> "A fever is a body temperature above normal.",
     source |-> "MedlinePlus", url |-> "https://medlineplus.gov/fever.html",
     title |-> "Fever", section |-> "Summary",
     metadata |-> [credibility |-> "high",
                   organization |-> "National Library of Medicine"]],
    [text |-> "Flu is a contagious respiratory illness.",
     source |-> "CDC", url |-> "https://www.cdc.gov/flu",
     title |-> "About Flu", section |-> "General",
     metadata |-> [credibility |-> "high",
                   organization |-> "Centers for Disease Control and Prevention"]] >>

\* how often the character c occurs in s
CountChar(s, c) == Cardinality({ i \in 1..Len(s) : SubSeq(s, i, i) = c })

\* embed_texts on one text: the embedding model is a fixed function of the text
\* (two coordinates stand for the 384 of all-MiniLM-L6-v2)
embed_text(text) == << Len(text) % EmbRange, CountChar(text, " ") % EmbRange >>

\* the distance ChromaDB reports for a collection created with its default
\* space: the squared Euclidean distance
Distance(a, b) == (a[1] - b[1]) * (a[1] - b[1]) + (a[2] - b[2]) * (a[2] - b[2])

\* a chunk stored with the embedding of its title instead of its text
StoredChunk_TitleEmbedding(doc, i) ==
    [id |-> i,
     document |-> doc.text,
     metadata |-> [source |-> doc.source, url |-> doc.url, title |-> doc.title,
                   section |-> doc.section,
                   credibility |-> doc.metadata.credibility,
                   organization |-> doc.metadata.organization],
     embedding |-> embed_text(doc.title)]

\* the id, metadata and embedding add_documents builds for the i-th document
\* (counted from 0) of one call
StoredChunk(doc, i) ==
    [id |-> i,
     document |-> doc.text,
     metadata |-> [source |-> doc.source, url |-> doc.url, title |-> doc.title,
                   section |-> doc.section,
                   credibility |-> doc.metadata.credibility,
                   organization |-> doc.metadata.organization],
     embedding |-> embed_text(doc.text)]

\* the collections one add_documents call on an empty index leaves behind:
\* the documents of the call in order, ids doc_000000, doc_000001, ...
PersistedCollections ==
    { [i \in 1..Len(ix) |-> StoredChunk(DocPool[ix[i]], i - 1)] :
        ix \in { s \in UNION { [1..n -> 1..Len(DocPool)] : n \in 0..MaxChunks } :
                   \A i, j \in 1..Len(s) : i < j => s[i] < s[j] } }

\* collection.query(query_embeddings=[e], n_results=n): the possible answers.
\* ChromaDB returns the min(n, count) nearest chunks, nearest first; the order
\* among chunks at the same distance is the library's choice.
collection_query(coll, e, n) ==
    LET m == IF n < Len(coll) THEN n ELSE Len(coll)
        d(i) == Distance(coll[i].embedding, e)
        picks == { p \in [1..m -> 1..Len(coll)] :
                     /\ \A i, j \in 1..m : i < j => p[i] # p[j] /\ d(p[i]) <= d(p[j])
                     /\ \A k \in 1..Len(coll) :
                            (\A i \in 1..m : p[i] # k) => \A i \in 1..m : d(p[i]) <= d(k) }
    IN  { [documents |-> << [i \in 1..m |-> coll[p[i]].document] >>,
           metadatas |-> << [i \in 1..m |-> coll[p[i]].metadata] >>,
           distances |-> << [i \in 1..m |-> d(p[i])] >>] : p \in picks }

\* the formatting half of FreeVectorDB.search: one hit per returned document
format_results(results) ==
    IF results.documents # <<>> /\ results.documents[1] # <<>>
    THEN [i \in 1..Len(results.documents[1]) |->
            [document |-> results.documents[1][i],
             metadata |-> results.metadatas[1][i],
             distance |-> results.distances[1][i]]]
    ELSE <<>>

\* search that leaves n_results at its default of 5
search_DefaultK(coll, query, n) ==
    { format_results(r) : r \in collection_query(coll, embed_text(query), 5) }

\* FreeVectorDB.search(query, n_results): the possible return values
search(coll, query, n) ==
    { format_results(r) : r \in collection_query(coll, embed_text(query), n) }

----------------------------------------------------------------------------
(* OpenRouterClient *)

\* texts the model behind chat.completions.create answers with
GenTexts == { "According to the CDC, diabetes means high blood sugar. Talk to your doctor.",
              "<s> MedlinePlus states that rest and fluids help. </s> " }

\* messages of the exceptions chat.completions.create raises
ApiErrors == { "Connection error.",
               "Insufficient Credit Balance on this account" }

\* what one chat.completions.create call does: it returns a completion
\* carrying a text, or it raises.  The content of a completion is taken to be
\* a non-empty string, as generate's callers take it (they apply len, slicing
\* and replace to it).
ApiOutcomes ==
    { [ok |-> TRUE, content |-> t] : t \in GenTexts } \cup
    { [ok |-> FALSE, error |-> m] : m \in ApiErrors }

CreditsExhausted ==
    "OpenRouter credits exhausted. Please add more credits or use a different API key."

\* generate whose except clause handles the credit error only
generate_CreditOnly(messages, outcome) ==
    IF outcome.ok
    THEN [raised |-> FALSE, value |-> outcome.content]
    ELSE IF In("credit balance", lower(outcome.error))
    THEN [raised |-> FALSE, value |-> CreditsExhausted]
    ELSE [raised |-> TRUE, value |-> None]

\* OpenRouterClient.generate, given what the API call inside its try block does
\* (raised: the call ends by raising; value: the string it returns)
generate(messages, outcome) ==
    IF outcome.ok
    THEN [raised |-> FALSE, value |-> outcome.content]
    ELSE LET error_msg == outcome.error
         IN  IF In("credit balance", lower(error_msg))
             THEN [raised |-> FALSE, value |-> CreditsExhausted]
             ELSE [raised |-> FALSE, value |-> "Error: " \o error_msg]

----------------------------------------------------------------------------
(* HealthCompassRAG *)

SystemMessage == "You are Health Compass, an educational health information assistant."

\* create_health_prompt: the system directive and the user turn, which carries
\* the numbered, source-labelled context chunks followed by the question
create_health_prompt(query, docs) ==
    << [role |-> "system", content |-> SystemMessage],
       [role |-> "user",
        context |-> [i \in 1..Len(docs) |->
                       [n |-> i,
                        source |-> docs[i].metadata.source,
                        title |-> docs[i].metadata.title,
                        organization |-> docs[i].metadata.organization,
                        credibility |-> docs[i].metadata.credibility,
                        content |-> docs[i].document]],
        question |-> query] >>

\* a key that takes the source alone
Key_SourceOnly(doc) == << doc.metadata.source >>

\* the (source, url) key of a hit
Key(doc) == << doc.metadata.source, doc.metadata.url >>

\* Step 4 of query(): the `for doc in context_docs` loop with its `seen` set
RECURSIVE ExtractSources(_, _, _, _)
ExtractSources(docs, i, seen, sources) ==
    IF i > Len(docs) THEN sources
    ELSE IF Key(docs[i]) \notin seen
    THEN ExtractSources(docs, i + 1, seen \cup { Key(docs[i]) },
             Append(sources,
                    [source |-> docs[i].metadata.source,
                     url |-> docs[i].metadata.url,
                     title |-> docs[i].metadata.title,
                     organization |-> docs[i].metadata.organization,
                     credibility |-> docs[i].metadata.credibility]))
    ELSE ExtractSources(docs, i + 1, seen, sources)

unique_sources(docs) == ExtractSources(docs, 1, {}, <<>>)

NoResultsAnswer ==
    "I couldn't find relevant information in my database about this topic. Please consult a healthcare professional for accurate, personalized information."

\* the emergency test never taken
IsEmergency_Never(sr) == FALSE

\* the emergency test taken for every alert
IsEmergency_AnyAlert(sr) == sr.level # "INFO"

\* `if safety_result['level'] == 'EMERGENCY':`
IsEmergency(sr) == sr.level = "EMERGENCY"

\* the no-results test never taken
NoHits_Never(docs) == FALSE

\* `if not context_docs:`
NoHits(docs) == docs = <<>>

\* the dict of the `return` at rag_pipeline.py lines 89-94
emergency_return(sr) ==
    [answer |-> sr.message, sources |-> <<>>, safety_alert |-> sr, is_emergency |-> TRUE]

\* the no-results dict without its safety_alert
no_results_return_NoAlert(sr) ==
    [answer |-> NoResultsAnswer, sources |-> <<>>, is_emergency |-> FALSE]

\* the dict of the `return` at lines 103-111
no_results_return(sr) ==
    [answer |-> NoResultsAnswer, sources |-> <<>>, safety_alert |-> sr,
     is_emergency |-> FALSE]

\* the final dict without sources and hits when the answer is an error text
packaged_return_BareOnError(ans, sources, sr, docs) ==
    IF ans \in GenTexts
    THEN [answer |-> ans, sources |-> sources, safety_alert |-> sr,
          is_emergency |-> FALSE, context_docs |-> docs]
    ELSE [answer |-> ans, sources |-> <<>>, safety_alert |-> sr,
          is_emergency |-> FALSE, context_docs |-> <<>>]

\* the dict of the `return` at lines 137-143
packaged_return(ans, sources, sr, docs) ==
    [answer |-> ans, sources |-> sources, safety_alert |-> sr,
     is_emergency |-> FALSE, context_docs |-> docs]

----------------------------------------------------------------------------
(* Questions *)

\* each lowercase letter with its capital
UpperOf ==
    [c \in { SubSeq(LowerLetters, i, i) : i \in 1..Len(LowerLetters) } |->
        LET i == CHOOSE j \in 1..Len(LowerLetters) : SubSeq(LowerLetters, j, j) = c
        IN  SubSeq(UpperLetters, i, i)]

RECURSIVE upper(_)
\* the text typed in capitals
upper(s) ==
    IF s = "" THEN ""
    ELSE IF Len(s) = 1 THEN (IF s \in DOMAIN UpperOf THEN UpperOf[s] ELSE s)
    ELSE LET m == Len(s) \div 2
         IN  upper(SubSeq(s, 1, m)) \o upper(SubSeq(s, m + 1, Len(s)))

\* the test_cases of safety.py, the scenarios of the documentation, the test
\* queries of rag_pipeline.py, and questions around them
BaseQuestions == {
    "I have a headache",
    "Severe chest pain and shortness of breath",
    "High fever that won't go down",
    "What causes diabetes?",
    "I want to kill myself",
    "Deep cut that won't stop bleeding",
    "I have severe chest pain and can't breathe",
    "What is diabetes?",
    "How does aspirin work?",
    "What causes headaches?",
    "Diabetes is a condition of high blood sugar.",
    "no chest pain",
    "I do NOT have Chest Pain",
    "Is sunstroke dangerous?",
    "heart attack or chest pain",
    "what are stroke symptoms",
    "stroke symptoms after chest pain",
    "high fever and then a seizure",
    "broken bone with heavy bleeding",
    "severe pain that won't go away",
    "eye injury and a broken bone",
    "Severe Headache since Monday",
    "chestpain",
    "chest  pain",
    "fever",
    "find hospital near Boston",
    "chest pain which hospital is closest",
    "urgent care for high fever" }

\* every emergency phrase inside a negation, in capitals; every urgent phrase
\* inside a sentence
PhraseQuestions ==
    { "I have NO " \o upper(emergency_keywords[i]) \o " today" :
        i \in 1..Len(emergency_keywords) } \cup
    { "is " \o urgent_keywords[i] \o " serious?" : i \in 1..Len(urgent_keywords) }

Questions == BaseQuestions \cup PhraseQuestions

----------------------------------------------------------------------------
(* query(), one step per component call *)

\* the words that send a chat message to the hospital finder
HospitalKeywords == << "hospital", "clinic", "doctor near", "find hospital",
                       "medical center", "emergency room", "er near", "urgent care" >>

NoSafetyResult == [level |-> None, message |-> None, keyword_triggered |-> None]

\* check_query on each question, evaluated once
CheckQueryOf == [q \in Questions |-> check_query(q)]

\* the hospital test of the chat on each question, evaluated once
NamesHospital ==
    [q \in Questions |->
        \E i \in 1..Len(HospitalKeywords) : In(HospitalKeywords[i], lower(q))]

\* no question is being handled
QueryIdle ==
    /\ pc = "idle"
    /\ caller = None
    /\ user_question = ""
    /\ n_results = 0
    /\ safety_result = NoSafetyResult
    /\ context_docs = <<>>
    /\ answer = None
    /\ result = NotReturned
    /\ api_outcome = NoOutcome
    /\ raised = FALSE
    /\ trace = <<>>
    /\ shown = <<>>

Init ==
    /\ collection \in PersistedCollections
    /\ QueryIdle
    /\ AppLoaded
    /\ Sequential
    /\ TextIdle
    /\ CorpusIdle
    /\ log = <<>>
    /\ IndexIdle
    /\ ids_assigned = IF collection = <<>> THEN <<>>
                      ELSE << [i \in 1..Len(collection) |-> collection[i].id] >>

\* `if rag:` / `if rag_sys:` / `if self.rag:`: the caller holds an orchestrator
Loaded == rag # NotCalled /\ rag.value # NoOrchestrator

\* query(user_question, n_results) is entered with fresh locals
Enter(who, q, n) ==
    /\ caller' = who
    /\ user_question' = q
    /\ n_results' = n
    /\ pc' = "safety_check"
    /\ safety_result' = NoSafetyResult
    /\ context_docs' = <<>>
    /\ answer' = None
    /\ result' = NotReturned
    /\ api_outcome' = NoOutcome
    /\ raised' = FALSE
    /\ trace' = <<>>
    /\ shown' = <<>>
    /\ UNCHANGED <<ingestVars, collection>>

\* a caller other than the two UI handlers (run_pipeline.py, the analyzers)
DirectQuery ==
    /\ pc = "idle"
    /\ Loaded
    /\ \E q \in Questions, n \in 1..MaxK : Enter("direct", q, n)

\* Step 1: safety check, and the emergency return
SafetyCheck ==
    /\ pc = "safety_check"
    /\ LET sr == CheckQueryOf[user_question]
       IN  /\ safety_result' = sr
           /\ trace' = Append(trace, "safety.check_query")
           /\ IF IsEmergency(sr)
              THEN /\ result' = emergency_return(sr)
                   /\ pc' = "returned"
              ELSE /\ result' = result
                   /\ pc' = "retrieve"
    /\ UNCHANGED <<ingestVars, collection, caller, user_question, n_results, context_docs,
                   api_outcome, answer, raised, shown>>

\* Step 2: search the vector database, and the no-results return
Retrieve ==
    /\ pc = "retrieve"
    /\ \E docs \in search(collection, user_question, n_results) :
         /\ context_docs' = docs
         /\ trace' = Append(trace, "vector_db.search")
         /\ IF NoHits(docs)
            THEN /\ result' = no_results_return(safety_result)
                 /\ pc' = "returned"
            ELSE /\ result' = result
                 /\ pc' = "generate"
    /\ UNCHANGED <<ingestVars, collection, caller, user_question, n_results, safety_result,
                   api_outcome, answer, raised, shown>>

\* a generation call that failed is made again
after_generate_Retry(outcome) == IF outcome.ok THEN "package" ELSE "generate"

\* the statement query() goes on with when llm.generate has returned: Step 4,
\* whatever string came back
after_generate(outcome) == "package"

\* Step 3: build the prompt and call the generation client
Generate ==
    /\ pc = "generate"
    /\ \E outcome \in ApiOutcomes :
         LET messages == create_health_prompt(user_question, context_docs)
             r == generate(messages, outcome)
         IN  /\ trace' = trace \o << "create_health_prompt", "llm.generate" >>
             /\ api_outcome' = outcome
             /\ IF r.raised
                THEN /\ raised' = TRUE
                     /\ answer' = answer
                     /\ pc' = "raised"
                ELSE /\ raised' = raised
                     /\ answer' = r.value
                     /\ pc' = after_generate(outcome)
    /\ UNCHANGED <<ingestVars, collection, caller, user_question, n_results, safety_result,
                   context_docs, result, shown>>

\* Step 4: extract the unique sources, and the final return
Package ==
    /\ pc = "package"
    /\ result' = packaged_return(answer, unique_sources(context_docs),
                                 safety_result, context_docs)
    /\ trace' = Append(trace, "unique_sources")
    /\ pc' = "returned"
    /\ UNCHANGED <<ingestVars, collection, caller, user_question, n_results, safety_result,
                   context_docs, api_outcome, answer, raised, shown>>

----------------------------------------------------------------------------
(* app.py: the search tab and the AI-assistant chat *)

RECURSIVE replace(_, _, _)
\* str.replace(old, new): every occurrence of old, scanning left to right
replace(s, old, new) ==
    LET at == { i \in 1..(Len(s) - Len(old) + 1) : SubSeq(s, i, i + Len(old) - 1) = old }
    IN  IF at = {} THEN s
        ELSE LET first == CHOOSE i \in at : \A j \in at : i <= j
             IN  SubSeq(s, 1, first - 1) \o new
                     \o replace(SubSeq(s, first + Len(old), Len(s)), old, new)

Whitespace == { " ", "\n", "\t", "\r" }

RECURSIVE lstrip(_)
lstrip(s) == IF s # "" /\ Head(s) \in Whitespace THEN lstrip(Tail(s)) ELSE s

RECURSIVE rstrip(_)
rstrip(s) ==
    IF s # "" /\ SubSeq(s, Len(s), Len(s)) \in Whitespace
    THEN rstrip(SubSeq(s, 1, Len(s) - 1))
    ELSE s

\* str.strip()
strip(s) == rstrip(lstrip(s))

RECURSIVE join(_, _)
\* sep.join(seq)
join(seq, sep) ==
    IF seq = <<>> THEN ""
    ELSE IF Len(seq) = 1 THEN seq[1]
    ELSE LET m == Len(seq) \div 2
         IN  join(SubSeq(seq, 1, m), sep) \o sep \o join(SubSeq(seq, m + 1, Len(seq)), sep)

\* s[:n]
Prefix(s, n) == IF Len(s) <= n THEN s ELSE SubSeq(s, 1, n)

\* the orders in which iterating over set(...) can yield its members
Orders(S) ==
    { o \in [1..Cardinality(S) -> S] : \A i, j \in 1..Cardinality(S) : i # j => o[i] # o[j] }

\* the banner the search tab renders for result.get('is_emergency')
EmergencyBanner ==
    "MEDICAL EMERGENCY DETECTED - CALL 911 IMMEDIATELY - Do not delay. Seek emergency medical care now."

\* n_results the search tab passes
SearchTabK == 5
\* n_results the chat passes
ChatK == 3
\* the chat quotes at most this many characters of query()'s answer in its prompt
ChatAnswerChars == 1500

\* search tab: `if search_btn and query:` with the RAG system loaded
SubmitSearch ==
    /\ pc = "idle"
    /\ Loaded
    /\ \E q \in Questions : q # "" /\ Enter("search_tab", q, SearchTabK)

\* search tab, after query() returned: the emergency banner and st.stop(), or
\* the answer card followed by the sources and the download button
SearchTabRender ==
    /\ pc = "returned"
    /\ caller = "search_tab"
    /\ shown' =
         IF result.is_emergency
         THEN << [kind |-> "emergency_banner", text |-> EmergencyBanner] >>
         ELSE << [kind |-> "answer", text |-> result.answer] >> \o
              (IF result.sources # <<>>
               THEN << [kind |-> "sources",
                        text |-> [i \in 1..Len(result.sources) |->
                                    << i, result.sources[i].source,
                                       result.sources[i].title,
                                       result.sources[i].url >>]],
                       [kind |-> "download", text |-> result.answer] >>
               ELSE <<>>)
    /\ pc' = "done"
    /\ UNCHANGED <<ingestVars, collection, caller, user_question, n_results, safety_result,
                   context_docs, api_outcome, answer, result, raised, trace>>

\* chat: a message that names a hospital keyword is answered with the
\* facility list and never reaches query()
SubmitChatHospital ==
    /\ pc = "idle"
    /\ Loaded
    /\ \E q \in Questions :
         /\ NamesHospital[q]
         /\ caller' = "chat"
         /\ user_question' = q
         /\ shown' = << [kind |-> "chat_message", text |-> "Medical Facilities Near you",
                         sources |-> <<>>] >>
         /\ pc' = "done"
         /\ n_results' = 0
         /\ safety_result' = NoSafetyResult
         /\ context_docs' = <<>>
         /\ answer' = None
         /\ result' = NotReturned
         /\ api_outcome' = NoOutcome
         /\ raised' = FALSE
         /\ trace' = <<>>
    /\ UNCHANGED <<ingestVars, collection>>

\* chat: a regular health question goes to query() with n_results=3
SubmitChat ==
    /\ pc = "idle"
    /\ Loaded
    /\ \E q \in Questions :
         /\ ~ NamesHospital[q]
         /\ Enter("chat", q, ChatK)

\* the chat's own prompt: the profile, the question, and the head of query()'s answer
chat_prompt(q, rag_result) ==
    << [role |-> "system", content |-> "You are a personalized healthcare assistant"],
       [role |-> "user", question |-> q,
        information |-> Prefix(rag_result.answer, ChatAnswerChars)] >>

\* chat, after query() returned: a second generation call on the chat's own
\* prompt; its cleaned text plus the source note is the message that is shown
ChatRespond ==
    /\ pc = "returned"
    /\ caller = "chat"
    /\ \E outcome \in ApiOutcomes :
         LET r == generate(chat_prompt(user_question, result), outcome)
         IN  /\ trace' = Append(trace, "chat: llm.generate")
             /\ IF r.raised
                THEN /\ pc' = "crashed"
                     /\ shown' = shown
                ELSE LET response == strip(replace(replace(r.value, "<s>", ""), "</s>", ""))
                         top == SubSeq(result.sources, 1,
                                       IF Len(result.sources) < 3
                                       THEN Len(result.sources) ELSE 3)
                         names == { top[i].source : i \in 1..Len(top) }
                     IN  /\ pc' = "done"
                         /\ \E o \in Orders(names) :
                              shown' =
                                << [kind |-> "chat_message",
                                    text |-> IF result.sources # <<>>
                                             THEN response \o "\n\n---\n*Information from: "
                                                           \o join(o, ", ") \o "*"
                                             ELSE response,
                                    sources |-> result.sources] >>
    /\ UNCHANGED <<ingestVars, collection, caller, user_question, n_results, safety_result,
                   context_docs, api_outcome, answer, result, raised>>

\* the handler is over: its locals are gone and the next question can be submitted
Finish ==
    /\ \/ pc = "done"
       \/ pc = "raised"
       \/ pc = "crashed"
       \/ pc = "returned" /\ caller = "direct"
    /\ pc' = "idle"
    /\ caller' = None
    /\ user_question' = ""
    /\ n_results' = 0
    /\ safety_result' = NoSafetyResult
    /\ context_docs' = <<>>
    /\ answer' = None
    /\ result' = NotReturned
    /\ api_outcome' = NoOutcome
    /\ raised' = FALSE
    /\ trace' = <<>>
    /\ shown' = <<>>
    /\ UNCHANGED <<ingestVars, collection>>

Next ==
    \/ DirectQuery
    \/ SubmitSearch
    \/ SubmitChatHospital
    \/ SubmitChat
    \/ SafetyCheck
    \/ Retrieve
    \/ Generate
    \/ Package
    \/ SearchTabRender
    \/ ChatRespond
    \/ Finish

Spec == Init /\ [][Next]_vars

----------------------------------------------------------------------------
(* app.py: startup *)

\* what os.getenv("OPENROUTER_API_KEY") gives: unset, set to nothing, or a key
ApiKeys == { None, "", ApiKey }

\* first line of the ValueError of OpenRouterClient.__init__
MissingKeyError == "OPENROUTER_API_KEY not found in .env file!"

\* OpenRouterClient.__init__: `if not api_key: raise ValueError(...)`
OpenRouterClient_init(key, model) ==
    IF key = None \/ key = ""
    THEN [raised |-> TRUE, error |-> MissingKeyError]
    ELSE [raised |-> FALSE, value |-> model]

\* HealthCompassRAG.__init__: the vector database, the client, the safety
\* checker; an exception of the client's constructor leaves it
HealthCompassRAG_init(key) ==
    LET llm == OpenRouterClient_init(key, "mistralai/mistral-7b-instruct:free")
    IN  IF llm.raised THEN llm
        ELSE [raised |-> FALSE,
              value |-> [vector_db |-> "FreeVectorDB", llm |-> llm.value,
                         safety |-> "SafetyChecker"]]

\* load_rag: `try: return HealthCompassRAG()  except: return None`
load_rag(key) ==
    LET r == HealthCompassRAG_init(key)
    IN  IF r.raised THEN NoOrchestrator ELSE r.value

\* the indexes the app is started on: an empty one, and full ones
AppCollections == { c \in PersistedCollections : Len(c) \in { 0, MaxChunks } }

\* the app's process before its first script run
InitApp ==
    /\ collection \in AppCollections
    /\ api_key \in ApiKeys
    /\ rag = NotCalled
    /\ status = NotCalled
    /\ QueryIdle
    /\ Sequential
    /\ TextIdle
    /\ CorpusIdle
    /\ log = <<>>
    /\ IndexIdle
    /\ ids_assigned = IF collection = <<>> THEN <<>>
                      ELSE << [i \in 1..Len(collection) |-> collection[i].id] >>

\* the first script run: the sidebar calls load_rag() and draws System Status
StartApp ==
    /\ rag = NotCalled
    /\ LET loaded == load_rag(api_key)
       IN  /\ rag' = Called(loaded)
           /\ status' = Called(IF loaded # NoOrchestrator THEN "Online" ELSE "Offline")
    /\ UNCHANGED <<collection, queryVars, api_key, concurrentVars, textVars,
                   corpusVars, log, indexVars>>

\* a handler whose `if rag:` fails: the submitted question is dropped and
\* nothing is rendered for it
SubmitOffline(who) ==
    /\ pc = "idle"
    /\ rag = Called(NoOrchestrator)
    /\ \E q \in Questions :
         /\ caller' = who
         /\ user_question' = q
         /\ shown' = <<>>
         /\ pc' = "done"
         /\ n_results' = 0
         /\ safety_result' = NoSafetyResult
         /\ context_docs' = <<>>
         /\ answer' = None
         /\ result' = NotReturned
         /\ api_outcome' = NoOutcome
         /\ raised' = FALSE
         /\ trace' = <<>>
    /\ UNCHANGED <<ingestVars, collection>>

\* search tab: `if search_btn and query:` without an orchestrator
SubmitSearchOffline == SubmitOffline("search_tab")

\* chat: `if user_input:` without an orchestrator
SubmitChatOffline == SubmitOffline("chat")

NextApp ==
    \/ StartApp
    \/ SubmitSearchOffline
    \/ SubmitChatOffline
    \/ Next

SpecApp == InitApp /\ [][NextApp]_vars

----------------------------------------------------------------------------
(* query() called from several threads on one orchestrator *)

\* the most query() calls under way at the same time
MaxThreads == 2

Threads == 1..MaxThreads

\* the locals of a query() call that has not been made
IdleCall ==
    [pc |-> "idle", user_question |-> "", n_results |-> 0, outcome |-> NoOutcome,
     safety_result |-> NoSafetyResult, context_docs |-> <<>>, answer |-> None,
     result |-> NotReturned]

\* locals kept where every call reads them: context_docs of the call that
\* wrote last
set_locals_SharedHits(cs, t, new) ==
    [u \in DOMAIN cs |->
        IF u = t THEN new ELSE [cs[u] EXCEPT !.context_docs = new.context_docs]]

\* user_question, safety_result, context_docs, answer and sources are locals
\* of the frame of one query() call: a step of call t writes them for t only
set_locals(cs, t, new) == [cs EXCEPT ![t] = new]

\* query(user_question, n_results) run on its own from entry to return, the
\* generation service answering its prompt with `outcome`: the dicts it can return
HealthCompassRAG_query(coll, q, n, outcome) ==
    LET sr == CheckQueryOf[q]
    IN  IF IsEmergency(sr) THEN { emergency_return(sr) }
        ELSE { IF NoHits(docs) THEN no_results_return(sr)
               ELSE packaged_return(
                        generate(create_health_prompt(q, docs), outcome).value,
                        unique_sources(docs), sr, docs) :
               docs \in search(coll, q, n) }

\* the questions, n_results and service answers of the concurrent callers
ConcurrentQuestions ==
    { "What is diabetes?", "High fever that won't go down",
      "I have severe chest pain and can't breathe" }
ConcurrentK == { 2 }
ConcurrentOutcomes ==
    { [ok |-> TRUE, content |-> "According to the CDC, diabetes means high blood sugar. Talk to your doctor."],
      [ok |-> FALSE, error |-> "Connection error."] }

\* the indexes the threads query: an empty one, and one of the first
\* MaxChunks documents
ConcurrentCollections ==
    { <<>>, [i \in 1..MaxChunks |-> StoredChunk(DocPool[i], i - 1)] }

\* an orchestrator shared by the threads, on an empty or a full index
InitConcurrent ==
    /\ collection \in ConcurrentCollections
    /\ calls = [t \in Threads |-> IdleCall]
    /\ adding = NotCalled
    /\ AppLoaded
    /\ QueryIdle
    /\ TextIdle
    /\ CorpusIdle
    /\ log = <<>>
    /\ IndexIdle
    /\ ids_assigned = IF collection = <<>> THEN <<>>
                      ELSE << [i \in 1..Len(collection) |-> collection[i].id] >>

\* one step of call t: its locals become `new`, nothing else changes
CallStep(t, new) ==
    /\ calls' = set_locals(calls, t, new)
    /\ UNCHANGED <<collection, queryVars, startupVars, adding, textVars,
                   corpusVars, log, indexVars>>

\* thread t enters query(); the answer the service will give to its prompt
\* is settled by the prompt, not by what the other threads do
CallEnter ==
    \E t \in Threads :
        /\ calls[t].pc = "idle"
        /\ \E q \in ConcurrentQuestions, n \in ConcurrentK, o \in ConcurrentOutcomes :
             CallStep(t, [IdleCall EXCEPT !.pc = "safety_check", !.user_question = q,
                                          !.n_results = n, !.outcome = o])

\* Step 1 of call t
CallSafetyCheck ==
    \E t \in Threads :
        /\ calls[t].pc = "safety_check"
        /\ LET sr == CheckQueryOf[calls[t].user_question]
           IN  CallStep(t, IF IsEmergency(sr)
                           THEN [calls[t] EXCEPT !.safety_result = sr,
                                                 !.result = emergency_return(sr),
                                                 !.pc = "returned"]
                           ELSE [calls[t] EXCEPT !.safety_result = sr,
                                                 !.pc = "retrieve"])

\* Step 2 of call t
CallRetrieve ==
    \E t \in Threads :
        /\ calls[t].pc = "retrieve"
        /\ \E docs \in search(collection, calls[t].user_question, calls[t].n_results) :
             CallStep(t, IF NoHits(docs)
                         THEN [calls[t] EXCEPT !.context_docs = docs,
                                  !.result = no_results_return(calls[t].safety_result),
                                  !.pc = "returned"]
                         ELSE [calls[t] EXCEPT !.context_docs = docs,
                                               !.pc = "generate"])

\* Step 3 of call t
CallGenerate ==
    \E t \in Threads :
        /\ calls[t].pc = "generate"
        /\ LET messages == create_health_prompt(calls[t].user_question,
                                                calls[t].context_docs)
               r == generate(messages, calls[t].outcome)
           IN  CallStep(t, [calls[t] EXCEPT !.answer = r.value, !.pc = "package"])

\* Step 4 of call t, and its return
CallPackage ==
    \E t \in Threads :
        /\ calls[t].pc = "package"
        /\ CallStep(t, [calls[t] EXCEPT
                           !.result = packaged_return(calls[t].answer,
                                          unique_sources(calls[t].context_docs),
                                          calls[t].safety_result,
                                          calls[t].context_docs),
                           !.pc = "returned"])

\* the caller of call t has taken the dict: the thread is free again
CallFinish ==
    \E t \in Threads :
        /\ calls[t].pc = "returned"
        /\ CallStep(t, IdleCall)

NextConcurrent ==
    \/ CallEnter
    \/ CallSafetyCheck
    \/ CallRetrieve
    \/ CallGenerate
    \/ CallPackage
    \/ CallFinish

SpecConcurrent == InitConcurrent /\ [][NextConcurrent]_vars

----------------------------------------------------------------------------
(* TextProcessor: clean_text and chunk_text *)

\* the characters \w matches (ASCII), as one-character strings
WordChars ==
    LET all == UpperLetters \o LowerLetters \o "0123456789_"
    IN  { SubSeq(all, i, i) : i \in 1..Len(all) }

\* the punctuation the second substitution of clean_text keeps: - , . ( ) [ ] : /
KeptPunctuation == { "-", ",", ".", "(", ")", "[", "]", ":", "/" }

IsSpaceAt(s, i) == SubSeq(s, i, i) \in Whitespace

RECURSIVE collapse_whitespace(_, _, _)
\* re.sub(r'\s+', ' ', s) on the characters lo..hi of s: every maximal run of
\* whitespace becomes one space
collapse_whitespace(s, lo, hi) ==
    IF lo > hi THEN ""
    ELSE IF lo = hi
    THEN IF ~ IsSpaceAt(s, lo) THEN SubSeq(s, lo, lo)
         ELSE IF lo > 1 /\ IsSpaceAt(s, lo - 1) THEN "" ELSE " "
    ELSE LET m == (lo + hi) \div 2
         IN  collapse_whitespace(s, lo, m) \o collapse_whitespace(s, m + 1, hi)

RECURSIVE remove_special(_, _, _)
\* re.sub(r'[^\w\s\-,.()\[\]:/]', '', s) on the characters lo..hi of s
remove_special(s, lo, hi) ==
    IF lo > hi THEN ""
    ELSE IF lo = hi
    THEN IF SubSeq(s, lo, lo) \in WordChars \cup Whitespace \cup KeptPunctuation
         THEN SubSeq(s, lo, lo) ELSE ""
    ELSE LET m == (lo + hi) \div 2
         IN  remove_special(s, lo, m) \o remove_special(s, m + 1, hi)

\* TextProcessor.clean_text
clean_text(s) ==
    IF s = "" THEN ""
    ELSE LET collapsed == collapse_whitespace(s, 1, Len(s))
             kept == remove_special(collapsed, 1, Len(collapsed))
         IN  strip(kept)

RECURSIVE WordStarts(_, _, _)
\* the positions in lo..hi where a word of s begins, ascending
WordStarts(s, lo, hi) ==
    IF lo > hi THEN <<>>
    ELSE IF lo = hi
    THEN IF ~ IsSpaceAt(s, lo) /\ (lo = 1 \/ IsSpaceAt(s, lo - 1)) THEN << lo >> ELSE <<>>
    ELSE LET m == (lo + hi) \div 2
         IN  WordStarts(s, lo, m) \o WordStarts(s, m + 1, hi)

RECURSIVE WordEnds(_, _, _)
\* the positions in lo..hi where a word of s ends, ascending
WordEnds(s, lo, hi) ==
    IF lo > hi THEN <<>>
    ELSE IF lo = hi
    THEN IF ~ IsSpaceAt(s, lo) /\ (lo = Len(s) \/ IsSpaceAt(s, lo + 1)) THEN << lo >> ELSE <<>>
    ELSE LET m == (lo + hi) \div 2
         IN  WordEnds(s, lo, m) \o WordEnds(s, m + 1, hi)

\* str.split(): the maximal runs of non-whitespace characters, in order
split(s) ==
    LET starts == WordStarts(s, 1, Len(s))
        ends == WordEnds(s, 1, Len(s))
    IN  [k \in 1..Len(starts) |-> SubSeq(s, starts[k], ends[k])]

\* seq[i:j] for 0 <= i <= j
Slice(seq, i, j) == SubSeq(seq, i + 1, IF j < Len(seq) THEN j ELSE Len(seq))

\* list(range(0, stop, step)) for step > 0
range(stop, step) == [k \in 1..((stop + step - 1) \div step) |-> (k - 1) * step]

\* the first guard of chunk_text, in the comparison's other direction
too_short_Inclusive(s) == s = "" \/ Len(s) <= 100

\* the first guard of chunk_text: `not text or len(text) < 100`
too_short(s) == s = "" \/ Len(s) < 100

\* a window that takes one word more than chunk_size
window_OneMore(words, i, size) == join(Slice(words, i, i + size + 1), " ")

\* ' '.join(words[i:i + chunk_size])
window(words, i, size) == join(Slice(words, i, i + size), " ")

\* TextProcessor.chunk_text(text, chunk_size, overlap), for overlap < chunk_size
chunk_text(s, size, lap) ==
    IF too_short(s) THEN <<>>
    ELSE LET words == split(s)
         IN  IF Len(words) < 50 THEN << s >>
             ELSE LET at == range(Len(words), size - lap)
                  IN  SelectSeq([k \in 1..Len(at) |-> window(words, at[k], size)],
                                LAMBDA c : Len(c) > 100)

\* the defaults of chunk_text's parameters
chunk_size_default == 400
overlap_default == 50

\* n copies of the word w, separated by single spaces
RECURSIVE Words(_, _)
Words(w, n) ==
    IF n = 0 THEN ""
    ELSE IF n = 1 THEN w
    ELSE Words(w, n \div 2) \o " " \o Words(w, n - n \div 2)

\* texts handed to clean_text and chunk_text: around the 100-character and
\* the 50-word thresholds, longer than one window, with irregular whitespace
\* and with characters outside the allow-list
Texts ==
    { "",
      Words("a", 50), Words("a", 60),
      Words("pain", 20), Words("pain", 20) \o "s",
      Words("fever", 17), Words("fever", 49),
      "  " \o Words("fever", 49) \o "\n",
      Words("fever", 50), Words("fever", 51), Words("fever", 60),
      Words("fever", 100), Words("fever", 400),
      "a ! b", "!!!",
      "Blood pressure: 120/80 (normal).",
      "  Fever &  chills\n\n(38.5 C): see [1]; 50% -- a/b_c  ",
      "tab\tseparated\r\nlines" }

\* the window sizes and overlaps chunk_text is called with
ChunkSizes == { 30, 40, chunk_size_default }
Overlaps == { 0, 10, 20, overlap_default }

InitText ==
    /\ text_arg \in Texts
    /\ chunk_size \in ChunkSizes
    /\ overlap \in { o \in Overlaps : o < chunk_size }
    /\ chunks = NotCalled
    /\ cleaned = NotCalled
    /\ collection = <<>>
    /\ QueryIdle
    /\ AppNotStarted
    /\ Sequential
    /\ CorpusIdle
    /\ log = <<>>
    /\ IndexIdle
    /\ ids_assigned = <<>>

\* chunk_text(text, chunk_size, overlap) is called and returns
CallChunkText ==
    /\ chunks = NotCalled
    /\ chunks' = Called(chunk_text(text_arg, chunk_size, overlap))
    /\ UNCHANGED <<collection, queryVars, processVars, text_arg, chunk_size, overlap, cleaned,
                   corpusVars, log, indexVars>>

\* clean_text(text) is called and returns
CallCleanText ==
    /\ cleaned = NotCalled
    /\ cleaned' = Called(clean_text(text_arg))
    /\ UNCHANGED <<collection, queryVars, processVars, text_arg, chunk_size, overlap, chunks,
                   corpusVars, log, indexVars>>

NextText ==
    \/ CallChunkText
    \/ CallCleanText

SpecText == InitText /\ [][NextText]_vars

----------------------------------------------------------------------------
(* TextProcessor: the corpus build (process_medlineplus, process_cdc, process_all) *)

\* the most raw files one source directory holds in this model
MaxFiles == 3

\* values json.load yields: a string, null, a number
JStr(str) == [t |-> "str", s |-> str]
JNull == [t |-> "null"]
JNum(num) == [t |-> "num", n |-> num]

\* Python's `not v` for such a value
Falsy(v) == v.t = "null" \/ (v.t = "str" /\ v.s = "") \/ (v.t = "num" /\ v.n = 0)

\* chunk_text(v) with the default chunk_size and overlap: a falsy value gives
\* [], a string is chunked, and len() of any other value raises TypeError
chunk_text_of(v) ==
    IF Falsy(v) THEN [raised |-> FALSE, value |-> <<>>]
    ELSE IF v.t = "str"
    THEN [raised |-> FALSE,
          value |-> chunk_text(v.s, chunk_size_default, overlap_default)]
    ELSE [raised |-> TRUE, value |-> <<>>]

\* the raw files the MedlinePlus scraper left in data/raw/medlineplus: topics
\* as the scraper writes them, and files that are not such topics
MedlineplusFiles ==
    { [name |-> "fever.json",
       json |-> [t |-> "object", url |-> "https://medlineplus.gov/fever.html",
                 title |-> "Fever",
                 summary |-> JStr("Fever is a rise in body temperature above the normal range. It is usually a sign that the body is fighting an infection."),
                 sections |-> << [t |-> "object", heading |-> "Causes",
                                  content |-> JStr("Infections such as colds and flu are the most common causes of fever. Other causes include heat exhaustion and some medicines.")] >>]],
      [name |-> "diabetes.json",
       json |-> [t |-> "object", url |-> "https://medlineplus.gov/diabetes.html",
                 title |-> "Diabetes",
                 summary |-> JStr(Words("flu", 400)),
                 sections |-> <<>>]],
      [name |-> "flu.json",
       json |-> [t |-> "object", url |-> "https://medlineplus.gov/flu.html",
                 title |-> "Flu",
                 summary |-> JStr("Flu (influenza) is a contagious illness; it is caused by viruses & spreads easily!\n\n   Get a flu shot!"),
                 sections |-> <<>>]],
      [name |-> "asthma.json",
       json |-> [t |-> "object", url |-> "https://medlineplus.gov/asthma.html",
                 title |-> "Asthma",
                 summary |-> JStr("Asthma is a chronic disease that affects the airways in the lungs. The airways become inflamed and narrow at times."),
                 sections |-> << [t |-> "object", heading |-> "Symptoms",
                                  content |-> JStr("Asthma symptoms include wheezing, coughing, chest tightness and shortness of breath, often at night or early in the morning.")],
                                 [t |-> "str", s |-> "References"],
                                 [t |-> "object", heading |-> "Treatment",
                                  content |-> JStr("Asthma is treated with quick-relief medicines that stop symptoms and long-term control medicines that prevent them.")] >>]],
      [name |-> "truncated.json", json |-> [t |-> "invalid"]] }

\* the raw files the CDC scraper left in data/raw/cdc
CdcFiles ==
    { [name |-> "handwashing.json",
       json |-> [t |-> "object", url |-> "https://www.cdc.gov/handwashing",
                 title |-> "When and How to Wash Your Hands",
                 content |-> << [t |-> "object", text |-> JStr("Handwashing is one of the best ways to protect yourself and your family from getting sick.")],
                                [t |-> "object", text |-> JStr("Wash your hands often with soap and water for at least 20 seconds.")] >>]],
      [name |-> "stay_home.json",
       json |-> [t |-> "object", url |-> "https://www.cdc.gov/flu/stay-home",
                 title |-> "Stay Home When Sick",
                 content |-> << [t |-> "object", text |-> JStr("Stay home when you are sick.")] >>]],
      [name |-> "null_text.json",
       json |-> [t |-> "object", url |-> "https://www.cdc.gov/measles",
                 title |-> "Measles",
                 content |-> << [t |-> "object", text |-> JNull] >>]],
      [name |-> "page_list.json", json |-> [t |-> "array"]] }

\* the dict process_medlineplus appends for the i-th chunk of a summary or section
medlineplus_doc(data, section, i, chunk) ==
    [source |-> "MedlinePlus", url |-> data.url, title |-> data.title,
     section |-> section, chunk_id |-> i, text |-> clean_text(chunk),
     metadata |-> [credibility |-> "high", source_type |-> "government",
                   organization |-> "National Library of Medicine"]]

\* the dict process_cdc appends for the i-th chunk of a page
cdc_doc(data, i, chunk) ==
    [source |-> "CDC", url |-> data.url, title |-> data.title,
     section |-> "Main Content", chunk_id |-> i, text |-> clean_text(chunk),
     metadata |-> [credibility |-> "high", source_type |-> "government",
                   organization |-> "Centers for Disease Control"]]

RECURSIVE medlineplus_sections(_, _, _)
\* `for section in data.get('sections', [])` from the k-th section on, with
\* the dicts appended so far: a section that is no object, or whose content
\* cannot be chunked, raises and leaves what was appended
medlineplus_sections(data, k, docs) ==
    IF k > Len(data.sections) THEN [raised |-> FALSE, docs |-> docs]
    ELSE LET section == data.sections[k]
         IN  IF section.t # "object" THEN [raised |-> TRUE, docs |-> docs]
             ELSE LET r == chunk_text_of(section.content)
                  IN  IF r.raised THEN [raised |-> TRUE, docs |-> docs]
                      ELSE medlineplus_sections(data, k + 1,
                               docs \o [i \in 1..Len(r.value) |->
                                          medlineplus_doc(data, section.heading,
                                                          i - 1, r.value[i])])

\* the body of the try of process_medlineplus for one file: whether it raised,
\* and the dicts it appended to processed_docs before that
medlineplus_try(file) ==
    LET data == file.json
    IN  IF data.t # "object" THEN [raised |-> TRUE, docs |-> <<>>]
        ELSE LET r == chunk_text_of(data.summary)
             IN  IF r.raised THEN [raised |-> TRUE, docs |-> <<>>]
                 ELSE medlineplus_sections(data, 1,
                          [i \in 1..Len(r.value) |->
                             medlineplus_doc(data, "Summary", i - 1, r.value[i])])

\* the body of the try of process_cdc for one file
cdc_try(file) ==
    LET data == file.json
    IN  IF data.t # "object" THEN [raised |-> TRUE, docs |-> <<>>]
        ELSE IF \E k \in 1..Len(data.content) :
                    data.content[k].t # "object" \/ data.content[k].text.t # "str"
        THEN [raised |-> TRUE, docs |-> <<>>]
        ELSE LET full_text == join([k \in 1..Len(data.content) |->
                                       data.content[k].text.s], " ")
                 parts == IF full_text = "" THEN <<>>
                          ELSE chunk_text(full_text, chunk_size_default, overlap_default)
             IN  [raised |-> FALSE,
                  docs |-> [i \in 1..Len(parts) |-> cdc_doc(data, i - 1, parts[i])]]

\* the file names of a set of raw files
Names(S) == { f.name : f \in S }

\* the raw file of a set with the given name
Named(S, name) == CHOOSE f \in S : f.name = name

\* what the try of each loop does with each raw file, by file name, evaluated once
MedlineplusTryOf ==
    [name \in Names(MedlineplusFiles) |-> medlineplus_try(Named(MedlineplusFiles, name))]
CdcTryOf == [name \in Names(CdcFiles) |-> cdc_try(Named(CdcFiles, name))]

\* one printed line
Line(what, arg) == [line |-> what, arg |-> arg]

\* an except clause that lets the exception leave the loop
except_Propagate(acc, file) == [acc EXCEPT !.raised = TRUE]

\* `except Exception as e:` of process_medlineplus: print the warning, continue
medlineplus_except(acc, file) ==
    [acc EXCEPT !.log = Append(@, Line("Error processing", file))]

\* `except Exception as e:` of process_cdc: continue
cdc_except(acc, file) == acc

\* a loop that keeps a file's dicts only when its try ran to the end
processed_docs_append_WholeFileOnly(acc, r) ==
    IF r.raised THEN acc ELSE [acc EXCEPT !.docs = @ \o r.docs]

\* `processed_docs.append({...})` inside the try of process_medlineplus: each
\* dict goes straight into the list the function returns, so the dicts appended
\* before an exception are in it whether or not the try ran to the end
processed_docs_append(acc, r) == [acc EXCEPT !.docs = @ \o r.docs]

RECURSIVE medlineplus_loop(_, _, _)
\* `for file in files:` of process_medlineplus from the k-th file on
medlineplus_loop(files, k, acc) ==
    IF k > Len(files) \/ acc.raised THEN acc
    ELSE LET r == MedlineplusTryOf[files[k]]
             appended == processed_docs_append(acc, r)
         IN  medlineplus_loop(files, k + 1,
                 IF r.raised THEN medlineplus_except(appended, files[k]) ELSE appended)

RECURSIVE cdc_loop(_, _, _)
\* `for file in files:` of process_cdc from the k-th file on
cdc_loop(files, k, acc) ==
    IF k > Len(files) \/ acc.raised THEN acc
    ELSE LET r == CdcTryOf[files[k]]
             appended == [acc EXCEPT !.docs = @ \o r.docs]
         IN  cdc_loop(files, k + 1,
                 IF r.raised THEN cdc_except(appended, files[k]) ELSE appended)

\* TextProcessor.process_medlineplus: the list it returns, the lines it
\* prints, and whether an exception left it
process_medlineplus(dir) ==
    LET begun == [docs |-> <<>>, raised |-> FALSE,
                  log |-> << Line("Processing data", "MedlinePlus") >>]
    IN  IF ~ dir.exists
        THEN [begun EXCEPT !.log = Append(@, Line("data not found", "MedlinePlus"))]
        ELSE LET acc == medlineplus_loop(dir.files, 1, begun)
             IN  IF acc.raised THEN acc
                 ELSE [acc EXCEPT !.log = Append(@, Line("Processed MedlinePlus chunks",
                                                         Len(acc.docs)))]

\* TextProcessor.process_cdc
process_cdc(dir) ==
    LET begun == [docs |-> <<>>, raised |-> FALSE,
                  log |-> << Line("Processing data", "CDC") >>]
    IN  IF ~ dir.exists
        THEN [begun EXCEPT !.log = Append(@, Line("data not found", "CDC"))]
        ELSE LET acc == cdc_loop(dir.files, 1, begun)
             IN  IF acc.raised THEN acc
                 ELSE [acc EXCEPT !.log = Append(@, Line("Processed CDC chunks",
                                                         Len(acc.docs)))]

\* the sequences of at most n distinct members of S
DistinctSeqs(S, n) ==
    { q \in UNION { [1..k -> S] : k \in 0..n } :
        \A i, j \in 1..Len(q) : i # j => q[i] # q[j] }

\* a source directory: missing, or holding some raw files, named in the
\* order glob yields them
RawDirs(S) ==
    { [exists |-> FALSE, files |-> <<>>] } \cup
    { [exists |-> TRUE, files |-> q] : q \in DistinctSeqs(S, MaxFiles) }

InitCorpus ==
    /\ raw_dir \in [medlineplus : RawDirs(Names(MedlineplusFiles)),
                    cdc : RawDirs(Names(CdcFiles))]
    /\ stage = "start"
    /\ all_docs = <<>>
    /\ log = <<>>
    /\ collection = <<>>
    /\ QueryIdle
    /\ AppNotStarted
    /\ Sequential
    /\ TextIdle
    /\ IndexIdle
    /\ ids_assigned = <<>>

\* process_all: all_docs.extend(self.process_medlineplus())
ProcessMedlineplus ==
    /\ stage = "start"
    /\ LET r == process_medlineplus(raw_dir.medlineplus)
       IN  /\ all_docs' = all_docs \o r.docs
           /\ log' = log \o << Line("Starting data processing", "") >> \o r.log
           /\ stage' = IF r.raised THEN "aborted" ELSE "medlineplus"
    /\ UNCHANGED <<collection, queryVars, processVars, textVars, raw_dir, indexVars>>

\* process_all: all_docs.extend(self.process_cdc())
ProcessCdc ==
    /\ stage = "medlineplus"
    /\ LET r == process_cdc(raw_dir.cdc)
       IN  /\ all_docs' = all_docs \o r.docs
           /\ log' = log \o r.log
           /\ stage' = IF r.raised THEN "aborted" ELSE "cdc"
    /\ UNCHANGED <<collection, queryVars, processVars, textVars, raw_dir, indexVars>>

\* process_all: save all_documents.json when there are documents, and return
\* all_docs, which run_processing hands on as documents
SaveAll ==
    /\ stage = "cdc"
    /\ log' = IF all_docs # <<>>
              THEN log \o << Line("Total document chunks processed", Len(all_docs)),
                             Line("Saved to", "data/processed/all_documents.json") >>
              ELSE Append(log, Line("No documents processed", ""))
    /\ documents' = all_docs
    /\ stage' = "done"
    /\ UNCHANGED <<collection, queryVars, processVars, textVars, raw_dir, all_docs,
                   count_before, ids_assigned, stats, add_error, query_text,
                   search_hits>>

NextCorpus ==
    \/ ProcessMedlineplus
    \/ ProcessCdc
    \/ SaveAll

SpecCorpus == InitCorpus /\ [][NextCorpus]_vars

----------------------------------------------------------------------------
(* FreeVectorDB: add_documents, get_stats, delete_all *)

\* the batch size of add_documents
batch_size == 100
\* the most add_documents calls made between two clears of the index
MaxCalls == 2
\* the most batches one add_documents call is split into
MaxBatches == 3

\* ids, texts, metadatas and embeddings as add_documents prepares them: the
\* i-th document (counted from 0) gets the id doc_{i:06d}
prepare(docs) == [i \in 1..Len(docs) |-> StoredChunk(docs[i], i - 1)]

\* total_batches
total_batches(docs) == (Len(docs) - 1) \div batch_size + 1

\* collection.add(...) that returns: ChromaDB appends the records whose id the
\* collection does not hold yet and ignores the others
collection_add(coll, batch) ==
    LET held == { coll[k].id : k \in 1..Len(coll) }
    IN  coll \o SelectSeq(batch, LAMBDA c : c.id \notin held)

\* an except clause that ends the loop over the batches
batch_except_Raise(acc, batch_num) == [acc EXCEPT !.raised = TRUE]

\* `except Exception as e:` of add_documents: print the error, continue
batch_except(acc, batch_num) ==
    [acc EXCEPT !.log = Append(@, Line("Error adding batch", batch_num))]

\* one pass through the body of the batch loop: collection.add on the batch
\* returns (added) or raises (error)
add_batch(prepared, batch_num, added, acc) ==
    LET i == (batch_num - 1) * batch_size
        batch == Slice(prepared, i, i + batch_size)
    IN  IF added = "added"
        THEN [acc EXCEPT !.collection = collection_add(@, batch),
                         !.log = Append(@, Line("Batch added", batch_num))]
        ELSE batch_except(acc, batch_num)

RECURSIVE add_batches(_, _, _, _)
\* `for i in range(0, len(documents), batch_size)` from batch batch_num on;
\* outcome tells for each batch whether collection.add returned or raised
add_batches(prepared, batch_num, outcome, acc) ==
    IF batch_num > total_batches(prepared) \/ acc.raised THEN acc
    ELSE add_batches(prepared, batch_num + 1, outcome,
                     add_batch(prepared, batch_num, outcome[batch_num], acc))

\* `texts = [doc['text'] for doc in documents]` raises: a document has no 'text'
missing_text(docs) == \E i \in 1..Len(docs) : "text" \notin DOMAIN docs[i]

\* the KeyError of doc['text']
TextKeyError == "KeyError: 'text'"
\* an exception of embedding_model.encode
EncodeError == "RuntimeError: encode failed"

\* an exception before the loop that leaves the index cleared
raise_before_loop_Cleared(coll, error, printed) ==
    [collection |-> <<>>, raised |-> TRUE, error |-> error, log |-> printed]

\* an exception raised between lines 52 and 69 leaves add_documents: nothing
\* has been handed to the collection yet
raise_before_loop(coll, error, printed) ==
    [collection |-> coll, raised |-> TRUE, error |-> error, log |-> printed]

\* FreeVectorDB.add_documents: the collection it leaves, the lines it prints,
\* and whether an exception left it
add_documents(coll, docs, embedding, outcome) ==
    IF docs = <<>>
    THEN [collection |-> coll, raised |-> FALSE, error |-> None,
          log |-> << Line("No documents to add", "") >>]
    ELSE IF missing_text(docs)
    THEN raise_before_loop(coll, TextKeyError,
                           << Line("Adding documents to database", Len(docs)) >>)
    ELSE IF embedding = "raised"
    THEN raise_before_loop(coll, EncodeError,
                           << Line("Adding documents to database", Len(docs)),
                              Line("Generating embeddings", "") >>)
    ELSE LET begun == [collection |-> coll, raised |-> FALSE, error |-> None,
                       log |-> << Line("Adding documents to database", Len(docs)),
                                  Line("Generating embeddings", "") >>]
             acc == add_batches(prepare(docs), 1, outcome, begun)
         IN  IF acc.raised THEN acc
             ELSE [acc EXCEPT !.log = @ \o
                      << Line("Successfully added documents", Len(docs)),
                         Line("Database now contains total documents",
                              Len(acc.collection)) >>]

\* FreeVectorDB.get_stats
get_stats(coll) ==
    [total_documents |-> Len(coll), collection_name |-> "health_compass",
     embedding_dimension |-> 384]

\* a chunk dict that lacks its 'text' key
NoTextDoc ==
    [source |-> "MedlinePlus", url |-> "https://medlineplus.gov/asthma.html",
     title |-> "Asthma", section |-> "Summary",
     metadata |-> [credibility |-> "high",
                   organization |-> "National Library of Medicine"]]

\* the document lists of a few chunks: the first documents of DocPool, its
\* last document alone, and a list whose second document lacks its text
SmallLists ==
    { SubSeq(DocPool, 1, n) : n \in 0..MaxChunks } \cup
    { SubSeq(DocPool, Len(DocPool), Len(DocPool)) } \cup
    { << DocPool[1], NoTextDoc >> }

\* n documents: those of DocPool over and over
Cycle(n) == [i \in 1..n |-> DocPool[((i - 1) % Len(DocPool)) + 1]]

\* the document lists of a corpus build: one document, one full batch, one
\* document more than a batch, one document more than MaxBatches - 1 batches,
\* and a full batch followed by a document that lacks its text
BulkLists ==
    { Cycle(n) : n \in { 1, batch_size, batch_size + 1,
                         (MaxBatches - 1) * batch_size + 1 } } \cup
    { Append(Cycle(batch_size), NoTextDoc) }

\* the texts searched for: every document text, and a question
QueryTexts == { DocPool[i].text : i \in 1..Len(DocPool) } \cup { "What is diabetes?" }

\* a fresh process on an empty index
InitIndex ==
    /\ collection = <<>>
    /\ QueryIdle
    /\ AppNotStarted
    /\ Sequential
    /\ TextIdle
    /\ CorpusIdle
    /\ log = <<>>
    /\ IndexIdle
    /\ ids_assigned = <<>>

\* vector_db.add_documents(docs) for one of the lists, each batch persisted or failing
AddDocumentsOf(lists) ==
    /\ Len(ids_assigned) < MaxCalls
    /\ \E docs \in lists :
         \E embedding \in { "returned", "raised" },
            outcome \in [1..total_batches(docs) -> { "added", "error" }] :
            LET r == add_documents(collection, docs, embedding, outcome)
                prepared == prepare(docs)
            IN  /\ collection' = r.collection
                /\ log' = r.log
                /\ add_error' = r.error
                /\ documents' = docs
                /\ count_before' = Len(collection)
                /\ ids_assigned' = IF docs = <<>> \/ r.error # None THEN ids_assigned
                                   ELSE Append(ids_assigned,
                                               [i \in 1..Len(docs) |-> prepared[i].id])
    /\ stats' = NotCalled
    /\ query_text' = ""
    /\ search_hits' = NotCalled
    /\ UNCHANGED <<queryVars, processVars, textVars, corpusVars>>

\* add_documents with a few chunks
AddDocuments == AddDocumentsOf(SmallLists)

\* build_database: add_documents with the chunks of a whole corpus
AddCorpus == AddDocumentsOf(BulkLists)

\* stats = vector_db.get_stats()
GetStats ==
    /\ stats = NotCalled
    /\ add_error = None
    /\ stats' = Called(get_stats(collection))
    /\ UNCHANGED <<collection, queryVars, processVars, textVars, corpusVars, log, documents,
                   count_before, ids_assigned, add_error, query_text, search_hits>>

\* vector_db.search(query, n_results) called on its own
Search ==
    /\ \E q \in QueryTexts, n \in 1..MaxK :
         \E found \in search(collection, q, n) :
            /\ query_text' = q
            /\ search_hits' = Called(found)
    /\ UNCHANGED <<collection, queryVars, processVars, textVars, corpusVars, log, documents,
                   count_before, ids_assigned, stats, add_error>>

\* FreeVectorDB.delete_all: the collection is dropped and created again
DeleteAll ==
    /\ collection' = <<>>
    /\ ids_assigned' = <<>>
    /\ log' = << Line("Deleting all documents", ""), Line("Database cleared", "") >>
    /\ documents' = <<>>
    /\ count_before' = 0
    /\ stats' = NotCalled
    /\ add_error' = None
    /\ query_text' = ""
    /\ search_hits' = NotCalled
    /\ UNCHANGED <<queryVars, processVars, textVars, corpusVars>>

NextIndex ==
    \/ AddDocuments
    \/ Search
    \/ DeleteAll

SpecIndex == InitIndex /\ [][NextIndex]_vars

NextBulk ==
    \/ AddCorpus
    \/ GetStats
    \/ DeleteAll

SpecBulk == InitIndex /\ [][NextBulk]_vars

----------------------------------------------------------------------------
(* add_documents batch by batch, with searches made beside it *)

\* the document lists added beside searches: one document, and a full batch
\* of the other documents of DocPool followed by its last document
InterleavedLists ==
    { << DocPool[1] >>,
      Append([i \in 1..batch_size |-> DocPool[((i - 1) % (Len(DocPool) - 1)) + 1]],
             DocPool[Len(DocPool)]) }

\* the texts searched for beside an add_documents call
InterleavedQueries == { DocPool[1].text, DocPool[Len(DocPool)].text }

\* add_documents up to its batch loop: the prints, ids, texts and embeddings
BeginAdd ==
    /\ adding = NotCalled
    /\ Len(ids_assigned) < MaxCalls
    /\ \E docs \in InterleavedLists :
         /\ documents' = docs
         /\ ids_assigned' = Append(ids_assigned,
                                   [i \in 1..Len(docs) |-> prepare(docs)[i].id])
         /\ log' = << Line("Adding documents to database", Len(docs)),
                      Line("Generating embeddings", "") >>
    /\ count_before' = Len(collection)
    /\ adding' = Called(1)
    /\ stats' = NotCalled
    /\ add_error' = None
    /\ UNCHANGED <<collection, queryVars, startupVars, calls, textVars, corpusVars,
                   query_text, search_hits>>

\* one pass through the batch loop of the add_documents call under way
AddBatch ==
    /\ adding # NotCalled
    /\ adding.value <= total_batches(documents)
    /\ \E added \in { "added", "error" } :
         LET acc == add_batch(prepare(documents), adding.value, added,
                              [collection |-> collection, raised |-> FALSE,
                               error |-> None, log |-> log])
         IN  /\ collection' = acc.collection
             /\ log' = acc.log
    /\ adding' = Called(adding.value + 1)
    /\ UNCHANGED <<queryVars, startupVars, calls, textVars, corpusVars, documents,
                   count_before, ids_assigned, stats, add_error, query_text,
                   search_hits>>

\* the batch loop is over: the two closing prints, and add_documents returns
EndAdd ==
    /\ adding # NotCalled
    /\ adding.value > total_batches(documents)
    /\ log' = log \o << Line("Successfully added documents", Len(documents)),
                        Line("Database now contains total documents",
                             Len(collection)) >>
    /\ adding' = NotCalled
    /\ UNCHANGED <<collection, queryVars, startupVars, calls, textVars, corpusVars,
                   indexVars>>

\* vector_db.search(query, 1) from another caller, whatever add_documents is at
SearchBeside ==
    /\ \E q \in InterleavedQueries :
         \E found \in search(collection, q, 1) :
            /\ query_text' = q
            /\ search_hits' = Called(found)
    /\ UNCHANGED <<collection, queryVars, processVars, textVars, corpusVars, log,
                   documents, count_before, ids_assigned, stats, add_error>>

NextInterleaved ==
    \/ BeginAdd
    \/ AddBatch
    \/ EndAdd
    \/ SearchBeside

SpecInterleaved == InitIndex /\ [][NextInterleaved]_vars

----------------------------------------------------------------------------
(* Properties *)

Range(f) == { f[i] : i \in DOMAIN f }

\* query() has returned to its caller in this state
Returned == result # NotReturned

\* the emergency and urgent phrases that occur in each lowercased question
\* (positions in the keyword lists), evaluated once
PhrasesIn ==
    [q \in Questions |->
        [E |-> { i \in 1..Len(emergency_keywords) : In(emergency_keywords[i], lower(q)) },
         U |-> { i \in 1..Len(urgent_keywords) : In(urgent_keywords[i], lower(q)) }]]

Least(S) == CHOOSE i \in S : \A j \in S : i <= j

\* the questions built around an emergency phrase written in capitals
CapitalEmergencyQuestions ==
    { "I have NO " \o upper(emergency_keywords[i]) \o " today" :
        i \in 1..Len(emergency_keywords) }

\* C1: a query classified EMERGENCY is answered by query() without a call to
\* vector_db.search or llm.generate, with the canned emergency message as
\* answer, no sources and is_emergency true, whatever the index holds.
C1_EmergencyShortCircuit ==
    safety_result.level = "EMERGENCY" =>
        /\ Returned
        /\ pc \in { "returned", "done" }
        /\ "vector_db.search" \notin Range(trace)
        /\ "llm.generate" \notin Range(trace)
        /\ result.answer = EmergencyMessage
        /\ result.sources = <<>>
        /\ result.is_emergency = TRUE

C1_Witness ==
    /\ pc = "returned"
    /\ safety_result.level = "EMERGENCY"
    /\ user_question = "I have severe chest pain and can't breathe"
    /\ collection = <<>>

\* C2: a query that contains an emergency phrase once lowercased is classified
\* EMERGENCY, whatever surrounds the phrase (a negation included) and whatever
\* its letter case.
C2_EmergencyPhraseAlwaysEmergency ==
    safety_result.level # None =>
        ( ( PhrasesIn[user_question].E # {} \/ user_question \in CapitalEmergencyQuestions )
            => safety_result.level = "EMERGENCY" )

C2_Witness ==
    /\ safety_result.level = "EMERGENCY"
    /\ user_question = "I do NOT have Chest Pain"

\* the test_cases of safety.py with the level each expects
test_cases == {
    << "I have a headache", "INFO" >>,
    << "Severe chest pain and shortness of breath", "EMERGENCY" >>,
    << "High fever that won't go down", "URGENT" >>,
    << "What causes diabetes?", "INFO" >>,
    << "I want to kill myself", "EMERGENCY" >>,
    << "Deep cut that won't stop bleeding", "URGENT" >> }

\* C3: the emergency list is checked before the urgent list and the first match
\* wins: with an emergency phrase the level is EMERGENCY, with urgent phrases
\* only it is URGENT, with neither it is INFO with no message and no keyword;
\* keyword_triggered is the first entry, in list order, of the winning list that
\* occurs in the lowercased query; the test cases of safety.py get their levels.
C3_EmergencyBeforeUrgentFirstMatch ==
    safety_result.level # None =>
        LET E == PhrasesIn[user_question].E
            U == PhrasesIn[user_question].U
        IN  /\ E # {} =>
                /\ safety_result.level = "EMERGENCY"
                /\ safety_result.keyword_triggered = emergency_keywords[Least(E)]
                /\ safety_result.message = EmergencyMessage
            /\ (E = {} /\ U # {}) =>
                /\ safety_result.level = "URGENT"
                /\ safety_result.keyword_triggered = urgent_keywords[Least(U)]
                /\ safety_result.message = UrgentMessage
            /\ (E = {} /\ U = {}) =>
                /\ safety_result.level = "INFO"
                /\ safety_result.message = None
                /\ safety_result.keyword_triggered = None
            /\ \A tc \in test_cases :
                user_question = tc[1] => safety_result.level = tc[2]

C3_Witness ==
    /\ user_question = "high fever and then a seizure"
    /\ PhrasesIn[user_question].U # {}
    /\ safety_result.level = "EMERGENCY"
    /\ safety_result.keyword_triggered = "seizure"

C5_NoHitsFixedAnswer ==
    /\ ( /\ safety_result.level \in { "URGENT", "INFO" }
         /\ "vector_db.search" \in Range(trace)
         /\ context_docs = <<>> ) =>
            /\ Returned
            /\ ~ raised
            /\ pc \in { "returned", "done" }
            /\ result.answer = NoResultsAnswer
            /\ result.is_emergency = FALSE
            /\ result.sources = <<>>
            /\ "llm.generate" \notin Range(trace)
    /\ ( collection = <<>> /\ "vector_db.search" \in Range(trace) ) => context_docs = <<>>

C5_Witness ==
    /\ pc = "returned"
    /\ collection = <<>>
    /\ safety_result.level = "INFO"
    /\ trace = << "safety.check_query", "vector_db.search" >>
    /\ result.answer = NoResultsAnswer

\* C6: the sources list query() packages has exactly one entry per distinct
\* (source, url) pair of the hits, in the order in which the pairs first occur
\* in the hits, each entry with the title, organization and credibility of the
\* first hit of its pair.
C6_SourcesDeduplicated ==
    "unique_sources" \in Range(trace) =>
        LET hits == context_docs
            src == result.sources
            hpair(h) == << h.metadata.source, h.metadata.url >>
            spair(e) == << e.source, e.url >>
            first(k) == Least({ j \in 1..Len(hits) : hpair(hits[j]) = k })
        IN  /\ { spair(src[i]) : i \in 1..Len(src) } = { hpair(hits[j]) : j \in 1..Len(hits) }
            /\ \A i, j \in 1..Len(src) : i # j => spair(src[i]) # spair(src[j])
            /\ \A i, j \in 1..Len(src) :
                 i < j => first(spair(src[i])) < first(spair(src[j]))
            /\ \A i \in 1..Len(src) :
                 LET h == hits[first(spair(src[i]))]
                 IN  /\ src[i].title = h.metadata.title
                     /\ src[i].organization = h.metadata.organization
                     /\ src[i].credibility = h.metadata.credibility

C6_Witness ==
    /\ pc = "returned"
    /\ Len(context_docs) = 3
    /\ context_docs[1].metadata.url = context_docs[3].metadata.url
    /\ context_docs[1].metadata.source = context_docs[3].metadata.source
    /\ context_docs[1].metadata.title # context_docs[3].metadata.title
    /\ context_docs[2].metadata.url # context_docs[1].metadata.url
    /\ Len(result.sources) = 2
    /\ result.sources[1].title = context_docs[1].metadata.title

\* the strings generate returns for a failed API call
ErrorText(error) == { CreditsExhausted, "Error: " \o error }

C8_EnvelopeShape ==
    Returned =>
        /\ { "answer", "sources", "safety_alert", "is_emergency" } \subseteq DOMAIN result
        /\ result.is_emergency \in BOOLEAN
        /\ DOMAIN result.safety_alert = { "level", "message", "keyword_triggered" }
        /\ DOMAIN result.sources = 1..Len(result.sources)

C8_Witness ==
    /\ pc = "returned"
    /\ trace = << "safety.check_query", "vector_db.search" >>
    /\ DOMAIN result = { "answer", "sources", "safety_alert", "is_emergency" }
    /\ result.safety_alert.level = "URGENT"

\* C9: for an EMERGENCY query entered in the search tab or in the chat, the
\* first thing shown is the seek-immediate-care directive and no generation
\* call is made for the query.
C9_EmergencyDirectiveInUI ==
    ( pc = "done" /\ caller \in { "search_tab", "chat" }
      /\ safety_result.level = "EMERGENCY" ) =>
        /\ shown # <<>>
        /\ shown[1].kind = "emergency_banner" \/ shown[1].text = EmergencyMessage
        /\ "llm.generate" \notin Range(trace)
        /\ "chat: llm.generate" \notin Range(trace)

\* C10: search(query, n_results=k) returns at most k hits, each a chunk of the
\* collection, ordered by ascending distance, and returns the empty list when
\* the collection holds no chunks.
C10_SearchAtMostKAscending ==
    "vector_db.search" \in Range(trace) =>
        /\ Len(context_docs) <= n_results
        /\ \A i, j \in 1..Len(context_docs) :
             i < j => context_docs[i].distance <= context_docs[j].distance
        /\ \A i \in 1..Len(context_docs) :
             \E c \in Range(collection) :
                /\ c.document = context_docs[i].document
                /\ c.metadata = context_docs[i].metadata
        /\ collection = <<>> => context_docs = <<>>

C10_Witness ==
    /\ "vector_db.search" \in Range(trace)
    /\ Len(collection) > n_results
    /\ Len(context_docs) = n_results
    /\ n_results >= 2
    /\ context_docs[1].distance < context_docs[2].distance

\* C11: a chunk added with add_documents to an empty index and then searched
\* for with its own exact text is the first hit, at distance zero.
C11_RoundTripTopHit ==
    ( /\ search_hits.called
      /\ count_before = 0
      /\ \E k \in 1..Len(collection) : collection[k].document = query_text ) =>
        /\ search_hits.value # <<>>
        /\ search_hits.value[1].document = query_text
        /\ search_hits.value[1].distance = 0
        /\ \E k \in 1..Len(collection) :
             /\ collection[k].document = query_text
             /\ collection[k].metadata = search_hits.value[1].metadata

C11_Witness ==
    /\ search_hits.called
    /\ count_before = 0
    /\ Len(collection) >= 3
    /\ collection[2].document = query_text
    /\ Len(search_hits.value) >= 2
    /\ search_hits.value[1].document = query_text
    /\ search_hits.value[2].distance > 0

\* C12: the ids add_documents assigns are unique among all chunks added since
\* the index was last cleared, the chunks of earlier calls included.
C12_IdsUniqueInGeneration ==
    \A a, b \in 1..Len(ids_assigned) :
        \A i \in 1..Len(ids_assigned[a]), j \in 1..Len(ids_assigned[b]) :
            (a # b \/ i # j) => ids_assigned[a][i] # ids_assigned[b][j]

\* the latest call printed this line with this argument
Printed(what, arg) ==
    \E k \in 1..Len(log) : log[k].line = what /\ log[k].arg = arg

\* the batch the i-th document (counted from 1) of a call belongs to
BatchOf(i) == (i - 1) \div batch_size + 1

\* the documents of the latest add_documents call that the collection holds
\* since that call, by position in the call
PersistedOfCall ==
    LET since == { << collection[k].id, collection[k].document >> :
                     k \in (count_before + 1)..Len(collection) }
    IN  { i \in 1..Len(documents) : << i - 1, documents[i].text >> \in since }

CeilDiv(a, b) == IF a <= 0 THEN 0 - ((0 - a) \div b) ELSE (a + b - 1) \div b

\* C14: for a text of L >= 50 words chunked with window W and overlap O < W,
\* chunk_text emits ceil((L - O) / (W - O)) chunks.
C14_ChunkCountFormula ==
    ( chunks.called /\ Len(split(text_arg)) >= 50 ) =>
        Len(chunks.value) =
            CeilDiv(Len(split(text_arg)) - overlap, chunk_size - overlap)

\* C15: for a text of at least 50 words and any W, O with O < W, every chunk
\* chunk_text emits has at most W words.
C15_ChunkAtMostWindowWords ==
    ( chunks.called /\ Len(split(text_arg)) >= 50 ) =>
        \A i \in 1..Len(chunks.value) : Len(split(chunks.value[i])) <= chunk_size

C15_Witness ==
    /\ chunks.called
    /\ Len(split(text_arg)) >= 50
    /\ Len(chunks.value) >= 2
    /\ Len(split(chunks.value[1])) = chunk_size
    /\ Len(split(chunks.value[Len(chunks.value)])) < chunk_size

\* C16: every chunk the corpus builder emits and hands to the index has a
\* non-empty text of at least 100 characters.
C16_EmittedChunksLongEnough ==
    stage = "done" =>
        \A i \in 1..Len(documents) :
            documents[i].text # "" /\ Len(documents[i].text) >= 100

\* C17: a text of fewer than 50 words is never split: chunk_text returns the
\* whole text as its only chunk when the text has at least 100 characters,
\* and returns no chunk otherwise.
C17_ShortTextOneChunk ==
    ( chunks.called /\ Len(split(text_arg)) < 50 ) =>
        chunks.value = IF Len(text_arg) >= 100 THEN << text_arg >> ELSE <<>>

C17_Witness ==
    /\ chunks.called
    /\ Len(split(text_arg)) < 50
    /\ Len(text_arg) = 100
    /\ chunks.value = << text_arg >>

\* C18: the output of clean_text holds only allow-listed characters, has no
\* run of two or more whitespace characters and no leading or trailing
\* whitespace, and cleaning it again leaves it unchanged.
C18_CleanTextNormalized ==
    cleaned.called =>
        LET out == cleaned.value
        IN  /\ \A i \in 1..Len(out) :
                 SubSeq(out, i, i) \in WordChars \cup { " " } \cup KeptPunctuation
            /\ \A i \in 1..(Len(out) - 1) : ~ (IsSpaceAt(out, i) /\ IsSpaceAt(out, i + 1))
            /\ out # "" => ~ IsSpaceAt(out, 1) /\ ~ IsSpaceAt(out, Len(out))
            /\ clean_text(out) = out

\* sub occurs in seq as a run of consecutive members
Contains(seq, sub) ==
    \E i \in 0..(Len(seq) - Len(sub)) : SubSeq(seq, i + 1, i + Len(sub)) = sub

\* C19: the corpus build never aborts because of a malformed raw document:
\* it runs to its end, and the chunks of every well-formed document are among
\* the emitted chunks whatever malformed documents come before or after it.
C19_BuildSurvivesMalformed ==
    /\ stage # "aborted"
    /\ stage = "done" =>
         /\ \A k \in 1..Len(raw_dir.medlineplus.files) :
              LET r == MedlineplusTryOf[raw_dir.medlineplus.files[k]]
              IN  ~ r.raised => Contains(documents, r.docs)
         /\ \A k \in 1..Len(raw_dir.cdc.files) :
              LET r == CdcTryOf[raw_dir.cdc.files[k]]
              IN  ~ r.raised => Contains(documents, r.docs)

C19_Witness ==
    /\ stage = "done"
    /\ \E k \in 2..(Len(raw_dir.medlineplus.files) - 1) :
         /\ MedlineplusTryOf[raw_dir.medlineplus.files[k - 1]].raised
         /\ ~ MedlineplusTryOf[raw_dir.medlineplus.files[k]].raised
         /\ MedlineplusTryOf[raw_dir.medlineplus.files[k]].docs # <<>>
         /\ MedlineplusTryOf[raw_dir.medlineplus.files[k + 1]].raised
    /\ \E k \in 1..Len(raw_dir.cdc.files) : CdcTryOf[raw_dir.cdc.files[k]].raised
    /\ \E k \in 1..Len(raw_dir.cdc.files) :
         /\ ~ CdcTryOf[raw_dir.cdc.files[k]].raised
         /\ CdcTryOf[raw_dir.cdc.files[k]].docs # <<>>

\* C20: every malformed raw document the corpus build skips, from MedlinePlus
\* or from CDC, has a printed warning that names it.
C20_SkippedDocumentsLogged ==
    stage = "done" =>
        /\ \A k \in 1..Len(raw_dir.medlineplus.files) :
             MedlineplusTryOf[raw_dir.medlineplus.files[k]].raised =>
                \E i \in 1..Len(log) :
                    /\ log[i].line = "Error processing"
                    /\ log[i].arg = raw_dir.medlineplus.files[k]
        /\ \A k \in 1..Len(raw_dir.cdc.files) :
             CdcTryOf[raw_dir.cdc.files[k]].raised =>
                \E i \in 1..Len(log) :
                    /\ log[i].line = "Error processing"
                    /\ log[i].arg = raw_dir.cdc.files[k]

\* C21: when OPENROUTER_API_KEY is missing, constructing HealthCompassRAG
\* fails at startup, no orchestrator exists that could take a question, and
\* the failure is reported to the user instead of the app running on without
\* the orchestrator: the status names the missing key and no submitted
\* question is dropped without a word.
C21_MissingKeyFailsLoudly ==
    (api_key \in { None, "" } /\ rag # NotCalled) =>
        /\ HealthCompassRAG_init(api_key).raised
        /\ rag.value = NoOrchestrator
        /\ trace = <<>>
        /\ In("OPENROUTER_API_KEY", status.value)
        /\ (pc = "done" => shown # <<>>)

\* the component calls query() itself made for the question under way
QueryTrace == SelectSeq(trace, LAMBDA e : e # "chat: llm.generate")

IsPrefix(a, b) == Len(a) <= Len(b) /\ SubSeq(b, 1, Len(a)) = a

\* SAFETY_CHECK, RETRIEVE, DEDUPLICATE, ASSEMBLE, GENERATE
ClaimedStages == << "safety.check_query", "vector_db.search", "unique_sources",
                    "create_health_prompt", "llm.generate" >>

\* SAFETY_CHECK, RETRIEVE, ASSEMBLE, GENERATE, DEDUPLICATE
CodeStages == << "safety.check_query", "vector_db.search", "create_health_prompt",
                 "llm.generate", "unique_sources" >>

\* query() goes through the stages of `order` one after the other and leaves
\* only after the last one (PACKAGE), after the first one for an EMERGENCY
\* verdict, or after the second one when the search gave no hit
StagesFollow(order) ==
    /\ IsPrefix(QueryTrace, order)
    /\ ~ raised
    /\ Returned =>
          \/ QueryTrace = order
          \/ QueryTrace = SubSeq(order, 1, 1) /\ safety_result.level = "EMERGENCY"
          \/ QueryTrace = SubSeq(order, 1, 2) /\ context_docs = <<>>

C23_ConcurrentQueriesIndependent ==
    [][/\ collection' = collection
       /\ \A t \in Threads :
            calls'[t].pc = "returned" =>
                calls'[t].result \in
                    HealthCompassRAG_query(collection, calls'[t].user_question,
                                           calls'[t].n_results, calls'[t].outcome)]_vars

C23_Witness ==
    /\ calls[1].pc = "returned"
    /\ calls[2].pc = "returned"
    /\ calls[1].user_question = "What is diabetes?"
    /\ calls[2].user_question = "High fever that won't go down"
    /\ calls[1].outcome.ok
    /\ ~ calls[2].outcome.ok
    /\ Len(calls[1].result.sources) = 2
    /\ calls[2].result.sources # calls[1].result.sources

\* how many times query() has made the component call `what` for the
\* question under way
CallsMade(what) == Cardinality({ i \in 1..Len(QueryTrace) : QueryTrace[i] = what })

\* C24: one query() call makes at most one retrieval call and at most one
\* generation call; a generation call that failed is not made again, its
\* error text is the answer; and the generation call is made only after the
\* retrieval call has returned at least one hit.
C24_OneRetrievalOneGeneration ==
    /\ CallsMade("vector_db.search") <= 1
    /\ CallsMade("llm.generate") <= 1
    /\ CallsMade("llm.generate") = 1 =>
          /\ CallsMade("vector_db.search") = 1
          /\ Len(context_docs) >= 1
          /\ QueryTrace[2] = "vector_db.search"
    /\ (api_outcome # NoOutcome /\ ~ api_outcome.ok) =>
          /\ pc # "generate"
          /\ answer \in ErrorText(api_outcome.error)

C24_Witness ==
    /\ pc = "returned"
    /\ ~ raised
    /\ api_outcome # NoOutcome
    /\ ~ api_outcome.ok
    /\ CallsMade("llm.generate") = 1
    /\ CallsMade("vector_db.search") = 1
    /\ result.answer = "Error: Connection error."

\* the keywords in the order check_query tries them
CheckedKeywords == emergency_keywords \o urgent_keywords

\* the keywords that contain a keyword tried before them
ShadowedKeywords ==
    { CheckedKeywords[i] : i \in { k \in 1..Len(CheckedKeywords) :
          \E j \in 1..(k - 1) : In(CheckedKeywords[j], CheckedKeywords[k]) } }

\* the position of the keyword in the list
IndexOf(keywords, keyword) == CHOOSE i \in 1..Len(keywords) : keywords[i] = keyword

\* the emergency phrase occurs in the lowercased question
HasEmergencyPhrase(q, keyword) == IndexOf(emergency_keywords, keyword) \in PhrasesIn[q].E

C26_EnvelopeConsistent ==
    Returned =>
        /\ result.is_emergency <=> (result.safety_alert.level = "EMERGENCY")
        /\ result.sources # <<>> =>
              /\ "vector_db.search" \in Range(trace)
              /\ Len(context_docs) >= 1
        /\ Len(result.sources) <= Len(context_docs)

C26_Witness ==
    /\ pc = "returned"
    /\ result.is_emergency = FALSE
    /\ result.safety_alert.level = "URGENT"
    /\ Len(context_docs) = 3
    /\ Len(result.sources) = 2

\* the (source, url) pairs of the hits
HitPairs(hits) == { Key(hits[j]) : j \in 1..Len(hits) }

\* C27: when the generation call fails for a non-emergency question that has
\* hits, query() still returns: the dict has the error text as answer,
\* is_emergency false and one source for every (source, url) pair of the hits,
\* and differs in nothing but the answer from the dict returned for the same
\* hits when the generation call succeeds.
C27_FailedGenerationKeepsSources ==
    (api_outcome # NoOutcome /\ ~ api_outcome.ok) =>
        /\ pc # "raised"
        /\ safety_result.level # "EMERGENCY"
        /\ Len(context_docs) >= 1
        /\ Returned =>
              /\ result.answer \in ErrorText(api_outcome.error)
              /\ result.is_emergency = FALSE
              /\ Len(result.sources) = Cardinality(HitPairs(context_docs))
              /\ { << result.sources[i].source, result.sources[i].url >> :
                      i \in 1..Len(result.sources) } = HitPairs(context_docs)
              /\ \A o \in ApiOutcomes :
                    o.ok =>
                      [result EXCEPT !.answer = o.content] =
                          packaged_return(
                              generate(create_health_prompt(user_question, context_docs),
                                       o).value,
                              unique_sources(context_docs), safety_result, context_docs)

C27_Witness ==
    /\ pc = "returned"
    /\ api_outcome # NoOutcome
    /\ ~ api_outcome.ok
    /\ result.answer = CreditsExhausted
    /\ Len(context_docs) = 3
    /\ Len(result.sources) = 2
    /\ result.is_emergency = FALSE

\* C28: when add_documents fails before its batch loop (a document has no
\* 'text', or generating the embeddings raises), the exception reaches the
\* caller and the index is exactly as it was before the call: no batch was
\* handed to the collection.  add_documents with an empty list leaves the
\* index unchanged as well.
C28_FailureBeforeLoopLeavesIndex ==
    [][/\ (documents' # <<>> /\ missing_text(documents')) => add_error' = TextKeyError
       /\ add_error' # None =>
             /\ collection' = collection
             /\ \A k \in 1..Len(log') : log'[k].line \notin { "Batch added",
                                                              "Error adding batch",
                                                              "Successfully added documents" }
       /\ (Len(log') = 1 /\ log'[1].line = "No documents to add") =>
             /\ collection' = collection
             /\ add_error' = None]_vars

C28_Witness ==
    /\ add_error = TextKeyError
    /\ Len(documents) = 2
    /\ count_before = MaxChunks
    /\ collection = [i \in 1..MaxChunks |-> StoredChunk(DocPool[i], i - 1)]

\* the documents of the latest add_documents call that belong to batch b
MembersOf(b) == { i \in 1..Len(documents) : BatchOf(i) = b }

\* of every batch of the latest call the index holds all chunks or none, and
\* the chunks it holds of the call are in input order
WholeBatchesOnly ==
    /\ \A b \in 1..total_batches(documents) :
          \/ MembersOf(b) \subseteq PersistedOfCall
          \/ MembersOf(b) \cap PersistedOfCall = {}
    /\ \A k, l \in (count_before + 1)..Len(collection) :
          k < l => collection[k].id < collection[l].id

\* C29: add_documents persists its chunks batch by batch in input order:
\* while the call runs, the index holds only whole batches of it, none from a
\* batch the loop has not reached, and the number of persisted chunks never
\* goes down; a search made meanwhile can find the chunks of an earlier
\* batch and not those of a later one (the state C29_PartialObserved).
C29_WholeBatchesInOrder ==
    [][adding # NotCalled =>
          /\ Len(collection') >= Len(collection)
          /\ WholeBatchesOnly'
          /\ adding' # NotCalled =>
                \A i \in PersistedOfCall' : BatchOf(i) < adding'.value]_vars

\* a search made while add_documents runs finds the chunks of the first
\* batch and not the chunk of the second
C29_PartialObserved ==
    /\ adding # NotCalled
    /\ adding.value = 2
    /\ Len(collection) = batch_size
    /\ count_before = 0
    /\ search_hits # NotCalled
    /\ query_text = DocPool[Len(DocPool)].text
    /\ Len(search_hits.value) = 1
    /\ search_hits.value[1].document # query_text

\* the chunk dicts of a list that come from the MedlinePlus topic of a raw file
OfTopic(docs, name) ==
    LET data == Named(MedlineplusFiles, name).json
    IN  SelectSeq(docs, LAMBDA d : d.source = "MedlinePlus" /\ d.url = data.url)

\* C30: when the build is done, every MedlinePlus file whose processing raised
\* is in the output with exactly the chunks emitted before the exception (its
\* summary and the sections before the failing one), in order, and with none
\* of the sections from the failing one on; the file is reported with
\* "Error processing"
C30_PartialDocumentKept ==
    stage = "done" =>
        \A k \in 1..Len(raw_dir.medlineplus.files) :
            LET name == raw_dir.medlineplus.files[k]
                r == MedlineplusTryOf[name]
            IN  r.raised =>
                    /\ Contains(documents, r.docs)
                    /\ r.docs # <<>> => OfTopic(documents, name) = r.docs
                    /\ \E i \in 1..Len(log) :
                          log[i].line = "Error processing" /\ log[i].arg = name

\* C30 witness: a finished build over asthma.json, whose second section is a
\* bare string: the summary chunk and the chunk of the first section are in the
\* output, the third section is not
C30_Witness ==
    /\ stage = "done"
    /\ \E k \in 1..Len(raw_dir.medlineplus.files) :
          raw_dir.medlineplus.files[k] = "asthma.json"
    /\ MedlineplusTryOf["asthma.json"].raised
    /\ \E i \in 1..Len(documents) :
          documents[i].title = "Asthma" /\ documents[i].section = "Summary"
    /\ \E i \in 1..Len(documents) :
          documents[i].title = "Asthma" /\ documents[i].section = "Symptoms"
    /\ \A i \in 1..Len(documents) :
          documents[i].title = "Asthma" => documents[i].section # "Treatment"

====
